---- MODULE Spec2Model ----
(***************************************************************************)
(* Model of scrapechecker: the change finder (change_finder.py), the       *)
(* generic formatter (formatter.py) and the monitoring cycle of            *)
(* SiteMonitor (site_monitor.py) run against the dict-based contest        *)
(* scraper (scrapers/contest_scraper.py).                                  *)
(*                                                                         *)
(* A record (a Python dict) is a TLA+ function from the field names it     *)
(* holds to their values.  A record list is a sequence of records.         *)
(***************************************************************************)
EXTENDS Integers, Sequences, FiniteSets, TLC

(***************************************************************************)
(* Bounds of the model.                                                    *)
(***************************************************************************)
MaxLen == 2      \* longest record list drawn for find_changes
MaxPage == 2     \* most contestants the scraped page holds
MaxVotes == 1    \* highest vote count on the scraped page
MaxCycles == 2   \* invocations of monitor() in one behaviour
MaxDay == 2      \* calendar dates the clock runs through
MaxRanked == 12  \* longest ranking drawn for the focused rankings
MaxChanged == 3  \* longest list of ItemChanges drawn for the focused changes
MaxBlock == 1    \* longest list of ItemChanges drawn for a whole message
MaxChats == 2    \* most chat ids configured for the Telegram sender

(***************************************************************************)
(* Names met on the page.  "Roo" and "ROO" are distinct names with one     *)
(* key; "Key Change" is a contestant whose name is the text that           *)
(* monitor() searches the rendered message for.                            *)
(***************************************************************************)
Names == {"Roo", "ROO", "Key Change"}

\* str.lower() on the names of the model
Lower(s) ==
    CASE s = "Roo" -> "roo"
      [] s = "ROO" -> "roo"
      [] s = "Key Change" -> "key change"
      [] s = "Kangaroo" -> "kangaroo"
      [] s = "Fido" -> "fido"
      [] OTHER -> s

\* str.replace(" ", "_") on the lowered names of the model
ReplaceSpaces(s) ==
    CASE s = "key change" -> "key_change"
      [] OTHER -> s

\* ContestScraper.get_item_key: f"contestant_{item['name'].lower().replace(' ', '_')}"
get_item_key(item) == "contestant_" \o ReplaceSpaces(Lower(item.name))

\* str(value) as FieldChange stores it: numbers in decimal, names unchanged
DigitStr(n) ==
    CASE n = 0 -> "0" [] n = 1 -> "1" [] n = 2 -> "2" [] n = 3 -> "3"
      [] n = 4 -> "4" [] n = 5 -> "5" [] n = 6 -> "6" [] n = 7 -> "7"
      [] n = 8 -> "8" [] n = 9 -> "9"

RECURSIVE IntStr(_)
IntStr(n) == IF n < 10 THEN DigitStr(n) ELSE IntStr(n \div 10) \o DigitStr(n % 10)

StrOf(field, value) ==
    IF field \in {"rank", "votes"} THEN IntStr(value) ELSE value

(***************************************************************************)
(* change_finder.py                                                        *)
(***************************************************************************)
\* __init__ gone wrong: no field is ignored
ignored_fields_Empty == {}

\* ChangeFinder.__init__: self.ignored_fields = {"is_target"}
ignored_fields == {"is_target"}

\* Position of key in an ordered dict (a sequence of [key, item]), 0 if absent
RECURSIVE IndexOfKey(_, _, _)
IndexOfKey(d, key, i) ==
    IF i > Len(d) THEN 0
    ELSE IF d[i].key = key THEN i
    ELSE IndexOfKey(d, key, i + 1)

HasKey(d, key) == IndexOfKey(d, key, 1) # 0

Lookup(d, key) == d[IndexOfKey(d, key, 1)].item

\* ItemsDict gone wrong: every record kept, a key held twice stays twice
RECURSIVE ItemsDict_KeepAll(_, _)
ItemsDict_KeepAll(items, acc) ==
    IF items = << >> THEN acc
    ELSE ItemsDict_KeepAll(Tail(items),
                           Append(acc, [key |-> get_item_key(Head(items)),
                                        item |-> Head(items)]))

\* {get_item_key(item): item for item in items}: a key keeps the position of
\* its first occurrence and the value of its last one
RECURSIVE ItemsDict(_, _)
ItemsDict(items, acc) ==
    IF items = << >> THEN acc
    ELSE LET item == Head(items)
             key == get_item_key(item)
             at == IndexOfKey(acc, key, 1)
         IN  ItemsDict(Tail(items),
                       IF at = 0
                       THEN Append(acc, [key |-> key, item |-> item])
                       ELSE [acc EXCEPT ![at] = [key |-> key, item |-> item]])

\* _get_item_changes gone wrong: the ignored fields are compared too
get_item_changes_NoIgnore(old_item, new_item) ==
    LET differing == {f \in DOMAIN old_item :
                         f \in DOMAIN new_item /\ old_item[f] # new_item[f]}
    IN  [f \in differing |->
            [field_name |-> f,
             old_value |-> StrOf(f, old_item[f]),
             new_value |-> StrOf(f, new_item[f])]]

\* _get_item_changes gone wrong: the fields of the new record are walked as
\* well, a field the old record lacks is reported as changed from None
get_item_changes_NewFields(old_item, new_item) ==
    LET differing == {f \in (DOMAIN old_item \cup DOMAIN new_item) \ ignored_fields :
                         /\ f \in DOMAIN new_item
                         /\ (f \in DOMAIN old_item => old_item[f] # new_item[f])}
    IN  [f \in differing |->
            [field_name |-> f,
             old_value |-> IF f \in DOMAIN old_item THEN StrOf(f, old_item[f]) ELSE "None",
             new_value |-> StrOf(f, new_item[f])]]

\* ChangeFinder._get_item_changes
get_item_changes(old_item, new_item) ==
    LET differing == {f \in DOMAIN old_item :
                         /\ f \in DOMAIN new_item
                         /\ old_item[f] # new_item[f]
                         /\ f \notin ignored_fields}
    IN  [f \in differing |->
            [field_name |-> f,
             old_value |-> StrOf(f, old_item[f]),
             new_value |-> StrOf(f, new_item[f])]]

\* _find_changed_items gone wrong: every key of both snapshots is reported,
\* whether or not a field differs
RECURSIVE find_changed_items_NoGuard(_, _, _)
find_changed_items_NoGuard(current_dict, previous_dict, i) ==
    IF i > Len(current_dict) THEN << >>
    ELSE LET key == current_dict[i].key
             current_item == current_dict[i].item
             rest == find_changed_items_NoGuard(current_dict, previous_dict, i + 1)
         IN  IF HasKey(previous_dict, key)
             THEN << [old_item |-> Lookup(previous_dict, key),
                      new_item |-> current_item,
                      changes |-> get_item_changes(Lookup(previous_dict, key),
                                                   current_item)] >> \o rest
             ELSE rest

\* ChangeFinder._find_changed_items
RECURSIVE find_changed_items(_, _, _)
find_changed_items(current_dict, previous_dict, i) ==
    IF i > Len(current_dict) THEN << >>
    ELSE LET key == current_dict[i].key
             current_item == current_dict[i].item
             rest == find_changed_items(current_dict, previous_dict, i + 1)
         IN  IF HasKey(previous_dict, key)
             THEN LET previous_item == Lookup(previous_dict, key)
                      changes == get_item_changes(previous_item, current_item)
                  IN  IF DOMAIN changes # {}
                      THEN << [old_item |-> previous_item,
                               new_item |-> current_item,
                               changes |-> changes] >> \o rest
                      ELSE rest
             ELSE rest

\* [item for key, item in d.items() if key not in other]
RECURSIVE ItemsNotIn(_, _, _)
ItemsNotIn(d, other, i) ==
    IF i > Len(d) THEN << >>
    ELSE IF HasKey(other, d[i].key)
         THEN ItemsNotIn(d, other, i + 1)
         ELSE << d[i].item >> \o ItemsNotIn(d, other, i + 1)

\* ChangeFinder.find_changes
find_changes(current_items, previous_items) ==
    LET current_items_dict == ItemsDict(current_items, << >>)
        previous_items_dict == ItemsDict(previous_items, << >>)
    IN  [new |-> ItemsNotIn(current_items_dict, previous_items_dict, 1),
         removed |-> ItemsNotIn(previous_items_dict, current_items_dict, 1),
         changed |-> find_changed_items(current_items_dict, previous_items_dict, 1)]

(***************************************************************************)
(* formatter.py: the message is kept as its sequence of blocks; each block *)
(* records the count of its header, the items it lists and the N of its    *)
(* "... and N more" line (0: no such line).                                *)
(***************************************************************************)
\* Formatter.__init__: max_results: int = 5
max_results == 5

\* Formatter._format_current_rankings: _get_focused_rankings(current_items, max_items=5)
focus_max_items == 5

Min(a, b) == IF a < b THEN a ELSE b

\* the elements of a list
Range(seq) == {seq[i] : i \in 1..Len(seq)}

\* items[:n]
Take(items, n) == SubSeq(items, 1, Min(n, Len(items)))

\* t in s, on the lowered names of the model: "kangaroo" is the one that
\* strictly contains another
Contains(s, t) == s = t \/ (s = "kangaroo" /\ t = "roo")

\* "name" in item and target_name in item["name"].lower()
NameMatches(item, target_name) ==
    "name" \in DOMAIN item /\ Contains(Lower(item.name), target_name)

\* Position (from 1) of the first record matching the target, 0 if none
RECURSIVE FirstMatch(_, _, _)
FirstMatch(items, target_name, i) ==
    IF i > Len(items) THEN 0
    ELSE IF NameMatches(items[i], target_name) THEN i
    ELSE FirstMatch(items, target_name, i + 1)

\* Formatter._get_focused_rankings; target_item "" stands for None
Formatter_get_focused_rankings(items, max_items, target_item) ==
    IF target_item = "" THEN Take(items, max_items)
    ELSE LET found == FirstMatch(items, Lower(target_item), 1)
         IN  IF found = 0 THEN Take(items, max_items)
             ELSE LET target_index == found - 1
                      above0 == Min(2, target_index)
                      below0 == Min(2, Len(items) - target_index - 1)
                      total0 == above0 + 1 + below0
                      extra_above == IF total0 < max_items
                                     THEN Min(max_items - total0, target_index - above0)
                                     ELSE 0
                      items_above == above0 + extra_above
                      total1 == total0 + extra_above
                      extra_below == IF total0 < max_items /\ total1 < max_items
                                     THEN Min(max_items - total1,
                                              Len(items) - target_index - 1 - below0)
                                     ELSE 0
                      items_below == below0 + extra_below
                      start_index == target_index - items_above
                      end_index == target_index + items_below + 1
                  IN  SubSeq(items, start_index + 1, end_index)

\* Formatter._format_new_items / _format_removed_items
Formatter_format_items(kind, items) ==
    [kind |-> kind,
     count |-> Len(items),
     shown |-> Take(items, max_results),
     more |-> IF Len(items) > max_results THEN Len(items) - max_results ELSE 0]

\* Formatter._format_current_rankings
Formatter_format_current_rankings(current_items, target_item) ==
    LET count == Len(current_items)
        items_to_show == IF target_item # ""
                         THEN Formatter_get_focused_rankings(current_items,
                                                             focus_max_items, target_item)
                         ELSE Take(current_items, max_results)
    IN  [kind |-> "rankings",
         count |-> count,
         shown |-> items_to_show,
         more |-> IF Len(items_to_show) < count /\ target_item = ""
                  THEN count - Len(items_to_show) ELSE 0]

\* Formatter.format_changes_message on the ItemChange objects that
\* ChangeFinder.find_changes returns.  _format_changed_items and
\* _get_focused_changes unpack every element of changed_items as a 3-tuple
\* (formatter.py lines 113 and 220); ItemChange (types.py) is a plain dataclass
\* and is not iterable, so a non-empty changed_items raises TypeError.
Formatter_format_changes_message(new_items, removed_items, changed_items, current_items, target_item) ==
    IF changed_items # << >>
    THEN [raised |-> TRUE, blocks |-> << >>]
    ELSE [raised |-> FALSE,
          blocks |->
             (IF new_items # << >>
              THEN << Formatter_format_items("new", new_items) >> ELSE << >>)
             \o (IF removed_items # << >>
                 THEN << Formatter_format_items("removed", removed_items) >> ELSE << >>)
             \o (IF current_items # << >> /\ (new_items # << >> \/ removed_items # << >>)
                 THEN << Formatter_format_current_rankings(current_items, target_item) >>
                 ELSE << >>)]

\* ContestScraper.format_item prints item['name'] verbatim between the rank and
\* the votes: the line holds the text "Key Change" exactly when the name does
ItemTextHasKeyChange(item) == item.name = "Key Change"

\* "Key Change" in message: the header of a changed-items block, or an item line
MessageHasKeyChange(blocks) ==
    \E i \in 1..Len(blocks) :
        \/ blocks[i].kind = "changed"
        \/ \E j \in 1..Len(blocks[i].shown) : ItemTextHasKeyChange(blocks[i].shown[j])

(***************************************************************************)
(* change_finder.py: filter_to_target_only                                 *)
(***************************************************************************)
\* filter_to_target_only gone wrong: the name is compared with the target
\* for equality
filter_to_target_only_Exact(new_items, removed_items, changed_items, target_item) ==
    IF target_item = "" THEN [new |-> new_items, removed |-> removed_items,
                              changed |-> changed_items]
    ELSE LET target_name == Lower(target_item)
             is_target_item(item) == "name" \in DOMAIN item /\ Lower(item.name) = target_name
             is_target_change(item_change) == is_target_item(item_change.new_item)
         IN  [new |-> SelectSeq(new_items, is_target_item),
              removed |-> SelectSeq(removed_items, is_target_item),
              changed |-> SelectSeq(changed_items, is_target_change)]

\* ChangeFinder.filter_to_target_only; target_item "" stands for None
filter_to_target_only(new_items, removed_items, changed_items, target_item) ==
    IF target_item = "" THEN [new |-> new_items, removed |-> removed_items,
                              changed |-> changed_items]
    ELSE LET target_name == Lower(target_item)
             is_target_item(item) == NameMatches(item, target_name)
             is_target_change(item_change) == is_target_item(item_change.new_item)
         IN  [new |-> SelectSeq(new_items, is_target_item),
              removed |-> SelectSeq(removed_items, is_target_item),
              changed |-> SelectSeq(changed_items, is_target_change)]

(***************************************************************************)
(* contest/contest_formatter.py: ContestFormatter                          *)
(***************************************************************************)
Max(a, b) == IF a > b THEN a ELSE b

\* ContestFormatter._get_focused_rankings: target_rank <= 10
top_ranks == 10

\* ContestFormatter._format_current_rankings: _get_focused_rankings(current_items, max_items=7)
contest_focus_max_items == 7

\* items[a:b] as Python evaluates it: a negative bound counts from the end,
\* bounds beyond the list are clipped, an empty range gives []
PySlice(items, a, b) ==
    LET n == Len(items)
        lo == IF a < 0 THEN Max(a + n, 0) ELSE Min(a, n)
        hi == IF b < 0 THEN Max(b + n, 0) ELSE Min(b, n)
    IN  IF lo >= hi THEN << >> ELSE SubSeq(items, lo + 1, hi)

\* ContestFormatter._get_item_rank(item) is not None
HasRank(item) == "rank" \in DOMAIN item

\* _get_focused_rankings gone wrong: the local window is cut at
\* target_index - 2 and target_index + 3 without clamping
ContestFormatter_get_focused_rankings_Unclamped(items, max_items, target_item) ==
    IF target_item = "" THEN PySlice(items, 0, max_items)
    ELSE LET found == FirstMatch(items, Lower(target_item), 1)
         IN  IF found = 0 THEN PySlice(items, 0, max_items)
             ELSE LET target_index == found - 1
                      item == items[found]
                      target_rank == IF HasRank(item) /\ item.rank # 0
                                     THEN item.rank ELSE target_index + 1
                  IN  IF target_rank # 0 /\ target_rank <= top_ranks
                      THEN PySlice(items, 0, Min(target_index + 2, Len(items)))
                      ELSE PySlice(items, target_index - 2, target_index + 3)

\* ContestFormatter._get_focused_rankings; target_item "" stands for None
ContestFormatter_get_focused_rankings(items, max_items, target_item) ==
    IF target_item = "" THEN PySlice(items, 0, max_items)
    ELSE LET found == FirstMatch(items, Lower(target_item), 1)
         IN  IF found = 0 THEN PySlice(items, 0, max_items)
             ELSE LET target_index == found - 1
                      item == items[found]
                      target_rank == IF HasRank(item) /\ item.rank # 0
                                     THEN item.rank ELSE target_index + 1
                  IN  IF target_rank # 0 /\ target_rank <= top_ranks
                      THEN LET end_index == Min(target_index + 2, Len(items))
                           IN  PySlice(items, 0, end_index)
                      ELSE LET items_above == Min(2, target_index)
                               items_below == Min(2, Len(items) - target_index - 1)
                               start_index == target_index - items_above
                               end_index == target_index + items_below + 1
                           IN  PySlice(items, start_index, end_index)

\* ContestFormatter.__init__: max_results: int = 5
contest_max_results == 5

\* The verdict of the second loop of _get_focused_changes on one ItemChange
\* that does not match the target; a rank of None or 0 is falsy
should_include(item_change, target_current_rank) ==
    LET has_old == HasRank(item_change.old_item)
        has_new == HasRank(item_change.new_item)
        is_above_target ==
            /\ has_new
            /\ item_change.new_item.rank # 0
            /\ target_current_rank # 0
            /\ item_change.new_item.rank < target_current_rank
        moved_above_target ==
            \/ ~has_old
            \/ /\ item_change.old_item.rank # 0
               /\ item_change.old_item.rank >= target_current_rank
        already_above_and_stronger ==
            /\ has_old
            /\ item_change.old_item.rank # 0
            /\ item_change.old_item.rank < target_current_rank
            /\ "votes" \in DOMAIN item_change.changes
    IN  is_above_target /\ (moved_above_target \/ already_above_and_stronger)

\* The new records of the ItemChanges, in order
NewItems(changed_items) ==
    [i \in 1..Len(changed_items) |-> changed_items[i].new_item]

\* _get_focused_changes gone wrong: an ItemChange at the target's own rank is
\* taken for a threat as well
ContestFormatter_get_focused_changes_AtOrAbove(changed_items, current_items, target_item, self_max_results) ==
    IF target_item = "" THEN PySlice(changed_items, 0, self_max_results)
    ELSE LET target_name == Lower(target_item)
             found == FirstMatch(current_items, target_name, 1)
         IN  IF found = 0 \/ ~HasRank(current_items[found])
             THEN PySlice(changed_items, 0, self_max_results)
             ELSE LET target_current_rank == current_items[found].rank
                      own == FirstMatch(NewItems(changed_items), target_name, 1)
                      is_threat(item_change) ==
                          /\ ~NameMatches(item_change.new_item, target_name)
                          /\ \/ should_include(item_change, target_current_rank)
                             \/ /\ HasRank(item_change.new_item)
                                /\ item_change.new_item.rank = target_current_rank
                  IN  (IF own = 0 THEN << >> ELSE << changed_items[own] >>)
                      \o SelectSeq(changed_items, is_threat)

\* _get_focused_changes gone wrong: the target's own ItemChange stays at its
\* place among the others
ContestFormatter_get_focused_changes_InPlace(changed_items, current_items, target_item, self_max_results) ==
    IF target_item = "" THEN PySlice(changed_items, 0, self_max_results)
    ELSE LET target_name == Lower(target_item)
             found == FirstMatch(current_items, target_name, 1)
         IN  IF found = 0 \/ ~HasRank(current_items[found])
             THEN PySlice(changed_items, 0, self_max_results)
             ELSE LET target_current_rank == current_items[found].rank
                      own == FirstMatch(NewItems(changed_items), target_name, 1)
                      is_shown(item_change) ==
                          IF NameMatches(item_change.new_item, target_name)
                          THEN item_change = changed_items[own]
                          ELSE should_include(item_change, target_current_rank)
                  IN  SelectSeq(changed_items, is_shown)

\* _get_focused_changes gone wrong: the fallback returns every ItemChange
ContestFormatter_get_focused_changes_FallbackAll(changed_items, current_items, target_item, self_max_results) ==
    IF target_item = "" THEN PySlice(changed_items, 0, self_max_results)
    ELSE LET target_name == Lower(target_item)
             found == FirstMatch(current_items, target_name, 1)
         IN  IF found = 0 \/ ~HasRank(current_items[found])
             THEN changed_items
             ELSE LET target_current_rank == current_items[found].rank
                      own == FirstMatch(NewItems(changed_items), target_name, 1)
                      is_threat(item_change) ==
                          /\ ~NameMatches(item_change.new_item, target_name)
                          /\ should_include(item_change, target_current_rank)
                  IN  (IF own = 0 THEN << >> ELSE << changed_items[own] >>)
                      \o SelectSeq(changed_items, is_threat)

\* ContestFormatter._get_focused_changes; target_item "" stands for None.
\* target_current_rank is None when no record of current_items matches, and
\* when the first that matches has no rank
ContestFormatter_get_focused_changes(changed_items, current_items, target_item, self_max_results) ==
    IF target_item = "" THEN PySlice(changed_items, 0, self_max_results)
    ELSE LET target_name == Lower(target_item)
             found == FirstMatch(current_items, target_name, 1)
         IN  IF found = 0 \/ ~HasRank(current_items[found])
             THEN PySlice(changed_items, 0, self_max_results)
             ELSE LET target_current_rank == current_items[found].rank
                      own == FirstMatch(NewItems(changed_items), target_name, 1)
                      is_threat(item_change) ==
                          /\ ~NameMatches(item_change.new_item, target_name)
                          /\ should_include(item_change, target_current_rank)
                  IN  (IF own = 0 THEN << >> ELSE << changed_items[own] >>)
                      \o SelectSeq(changed_items, is_threat)

\* ContestFormatter._format_new_items / _format_removed_items
ContestFormatter_format_items(kind, items, self_max_results) ==
    [kind |-> kind,
     count |-> Len(items),
     shown |-> PySlice(items, 0, self_max_results),
     more |-> IF Len(items) > self_max_results THEN Len(items) - self_max_results ELSE 0]

\* ContestFormatter._format_changed_items: the block of the ItemChanges to
\* show, their new records as the lines; with nothing to show the text is ""
ContestFormatter_format_changed_items(changed_items, current_items, target_item, self_max_results) ==
    LET items_to_show ==
            IF target_item # ""
            THEN ContestFormatter_get_focused_changes(changed_items, current_items,
                                                      target_item, self_max_results)
            ELSE PySlice(changed_items, 0, self_max_results)
    IN  [kind |-> "changed",
         count |-> Len(items_to_show),
         shown |-> NewItems(items_to_show),
         more |-> 0]

\* ContestFormatter._format_current_rankings
ContestFormatter_format_current_rankings(current_items, target_item, self_max_results) ==
    LET count == Len(current_items)
        items_to_show ==
            IF target_item # ""
            THEN ContestFormatter_get_focused_rankings(current_items,
                                                       contest_focus_max_items, target_item)
            ELSE PySlice(current_items, 0, self_max_results)
    IN  [kind |-> "rankings",
         count |-> count,
         shown |-> items_to_show,
         more |-> IF Len(items_to_show) < count /\ target_item = ""
                  THEN count - Len(items_to_show) ELSE 0]

\* The text of a block is "": _format_changed_items returns "" when it has
\* nothing to show, every other block begins with its header line
BlockIsEmptyText(block) == block.kind = "changed" /\ block.shown = << >>

\* ContestScraper.format_item reads item["rank"], item["name"] and
\* item["votes"]: a line for a record without one of them raises KeyError
BlockRaises(block) ==
    \E j \in 1..Len(block.shown) :
        ~({"rank", "name", "votes"} \subseteq DOMAIN block.shown[j])

\* "\n\n".join(message_parts) if message_parts else "No changes detected.":
\* the sentinel, or the texts of the parts with a separator between them;
\* an exception of a part leaves the call without a message
JoinParts(message_parts) ==
    IF \E k \in 1..Len(message_parts) : BlockRaises(message_parts[k])
    THEN [raised |-> TRUE, sentinel |-> FALSE, parts |-> << >>]
    ELSE [raised |-> FALSE, sentinel |-> message_parts = << >>, parts |-> message_parts]

\* format_changes_message gone wrong: the rankings are appended whenever
\* current_items is supplied, changes or not
ContestFormatter_format_changes_message_RankingsAlways(new_items, removed_items, changed_items, current_items, target_item, self_max_results) ==
    JoinParts(
        (IF new_items # << >>
         THEN << ContestFormatter_format_items("new", new_items, self_max_results) >>
         ELSE << >>)
        \o (IF removed_items # << >>
            THEN << ContestFormatter_format_items("removed", removed_items,
                                                  self_max_results) >>
            ELSE << >>)
        \o (IF changed_items # << >>
            THEN << ContestFormatter_format_changed_items(changed_items, current_items,
                                                          target_item, self_max_results) >>
            ELSE << >>)
        \o (IF current_items # << >>
            THEN << ContestFormatter_format_current_rankings(current_items, target_item,
                                                             self_max_results) >>
            ELSE << >>))

\* ContestFormatter.format_changes_message; current_items << >> stands for
\* None and for [] alike
ContestFormatter_format_changes_message(new_items, removed_items, changed_items, current_items, target_item, self_max_results) ==
    JoinParts(
        (IF new_items # << >>
         THEN << ContestFormatter_format_items("new", new_items, self_max_results) >>
         ELSE << >>)
        \o (IF removed_items # << >>
            THEN << ContestFormatter_format_items("removed", removed_items,
                                                  self_max_results) >>
            ELSE << >>)
        \o (IF changed_items # << >>
            THEN << ContestFormatter_format_changed_items(changed_items, current_items,
                                                          target_item, self_max_results) >>
            ELSE << >>)
        \o (IF /\ current_items # << >>
               /\ (new_items # << >> \/ removed_items # << >> \/ changed_items # << >>)
            THEN << ContestFormatter_format_current_rankings(current_items, target_item,
                                                             self_max_results) >>
            ELSE << >>))

(***************************************************************************)
(* formatter.py: Formatter on the (old_item, new_item, changes) tuples its *)
(* signature declares                                                      *)
(***************************************************************************)
\* The competitor test of the second pass of Formatter._get_focused_changes
Formatter_is_competitor(old_item, new_item, target_new_rank) ==
    /\ HasRank(new_item)
    /\ new_item.rank # 0
    /\ target_new_rank # 0
    /\ new_item.rank <= target_new_rank
    /\ \/ ~HasRank(old_item)
       \/ /\ old_item.rank # 0
          /\ old_item.rank > target_new_rank

\* Formatter._get_focused_changes; a rank of 0 stands for None in
\* target_new_rank
Formatter_get_focused_changes(changed_items, target_item) ==
    IF target_item = "" THEN Take(changed_items, max_results)
    ELSE LET target_name == Lower(target_item)
             new_items == [i \in 1..Len(changed_items) |-> changed_items[i][2]]
             own == FirstMatch(new_items, target_name, 1)
         IN  IF own = 0 THEN << >>
             ELSE IF ~HasRank(changed_items[own][1]) THEN << changed_items[own] >>
             ELSE LET target_new_rank == IF HasRank(changed_items[own][2])
                                         THEN changed_items[own][2].rank ELSE 0
                      is_shown(change) ==
                          /\ ~NameMatches(change[2], target_name)
                          /\ Formatter_is_competitor(change[1], change[2], target_new_rank)
                  IN  << changed_items[own] >> \o SelectSeq(changed_items, is_shown)

\* Formatter._format_changed_items
Formatter_format_changed_items(changed_items, target_item) ==
    LET items_to_show == IF target_item # ""
                         THEN Formatter_get_focused_changes(changed_items, target_item)
                         ELSE Take(changed_items, max_results)
    IN  [kind |-> "changed",
         count |-> Len(items_to_show),
         shown |-> [i \in 1..Len(items_to_show) |-> items_to_show[i][2]],
         more |-> 0]

\* Formatter.format_changes_message on tuples
Formatter_format_changes_message_tuples(new_items, removed_items, changed_items, current_items, target_item) ==
    JoinParts(
        (IF new_items # << >>
         THEN << Formatter_format_items("new", new_items) >> ELSE << >>)
        \o (IF removed_items # << >>
            THEN << Formatter_format_items("removed", removed_items) >> ELSE << >>)
        \o (IF changed_items # << >>
            THEN << Formatter_format_changed_items(changed_items, target_item) >>
            ELSE << >>)
        \o (IF /\ current_items # << >>
               /\ (new_items # << >> \/ removed_items # << >> \/ changed_items # << >>)
            THEN << Formatter_format_current_rankings(current_items, target_item) >>
            ELSE << >>))

(***************************************************************************)
(* The scraped page (scrapers/contest_scraper.py, web_scraper.py)          *)
(***************************************************************************)
\* Names of the contestants on the monitored page
PageNames == {"Roo", "Key Change"}

\* target_item of a run: None (written "") or the target of contest_monitor.py
Targets == {"", "roo"}

\* The leaderboard: at most MaxPage entries, listed by rank 1, 2, ... with
\* non-increasing votes
PageEntries == [name : PageNames, votes : 1..MaxVotes]

Pages ==
    {p \in UNION {[1..n -> PageEntries] : n \in 0..MaxPage} :
        \A i \in 1..(Len(p) - 1) : p[i].votes >= p[i + 1].votes}

\* ContestScraper.extract_data: "is_target": self.target_item and
\* name.lower() == self.target_item.lower()
IsTargetValue(name, target_item) ==
    IF target_item = "" THEN "None"
    ELSE IF Lower(name) = Lower(target_item) THEN "True" ELSE "False"

\* ContestScraper.extract_data on a page that loads: one dict per entry, sorted
\* by rank (the page lists them by rank already)
extract_data(page, target_item) ==
    [i \in 1..Len(page) |->
        [rank |-> i,
         name |-> page[i].name,
         votes |-> page[i].votes,
         is_target |-> IsTargetValue(page[i].name, target_item)]]

(***************************************************************************)
(* site_monitor.py: the files and the monitoring cycle                     *)
(***************************************************************************)
VARIABLES
    dataFile,        \* data_file on disk
    statusFile,      \* status_file on disk
    today,           \* datetime.now(tz=TZ).date(), as a day number
    pc,              \* position inside monitor(); "idle" between invocations
    cycle,           \* invocations of monitor() started; also the clock of timestamps
    target_item,     \* site_scraper.target_item of the running invocation
    telegram,        \* whether self.telegram is configured in the running invocation
    current_items, previous_items,
    new_items, removed_items, changed_items,
    message,         \* blocks of the rendered message
    \* observations of the running (or last) invocation
    stages,          \* stages performed so far, in order
    outcome,         \* "none", "running", "completed" or "raised"
    scrapeResult,    \* "none", "ok", "extract_error" or "driver_error"
    changeAlert,     \* "none", or how send_telegram_alert(message) ended
    saveResult,      \* "none", or how save_current_data ended
    startData, startStatus,   \* the two files as monitor() found them
    initialData,     \* data_file as the first invocation found it
    \* observations across invocations
    statusAlerts,    \* per date: status notifications handed to send_telegram_alert
    lastReport,      \* figure of the last status notification and the tally it covers
    tally,           \* sizes of the diffs computed since the last status notification
    completed,       \* record lists scraped by the completed invocations
    savedTs,         \* timestamps written by the saves that succeeded
    \* a selection or rendering function applied on its own
    call,            \* "none", or the function last applied in this invocation
    args,            \* the arguments it was applied to
    result           \* << >> while the call is pending, then << what it returned >>

vars == << dataFile, statusFile, today, pc, cycle, target_item, telegram,
           current_items, previous_items, new_items, removed_items, changed_items,
           message, stages, outcome, scrapeResult, changeAlert, saveResult,
           startData, startStatus, initialData, statusAlerts, lastReport, tally,
           completed, savedTs, call, args, result >>

applied == << call, args, result >>
monitor == << dataFile, statusFile, today, pc, cycle, target_item, telegram,
              current_items, previous_items, new_items, removed_items,
              changed_items, message, stages, outcome, scrapeResult, changeAlert,
              saveResult, startData, startStatus, initialData, statusAlerts,
              lastReport, tally, completed, savedTs >>

locals == << previous_items, new_items, removed_items, changed_items, message >>
history == << initialData, statusAlerts, lastReport, tally, completed, savedTs >>

\* Contents of data_file.  kind "list" is the legacy plain array, "dict" the
\* object format, "other" any JSON value that is neither (or an object without
\* "current"), "corrupt" text that json.load rejects.  timestamp 0 is null.
DataFile(kind, cur, prev, ts, pts) ==
    [kind |-> kind, current |-> cur, previous |-> prev,
     timestamp |-> ts, previous_timestamp |-> pts]

NoDataFile == DataFile("absent", << >>, << >>, 0, 0)
CorruptDataFile == DataFile("corrupt", << >>, << >>, 0, 0)

\* Contents of status_file; last_sent 0 is null
StatusFile(kind, last_sent, changes) ==
    [kind |-> kind, last_sent |-> last_sent, changes |-> changes]

\* load_previous_data without the legacy branch: a plain array counts as an
\* unexpected format
load_previous_data_NoLegacy(file) ==
    IF file.kind = "dict" THEN file.current ELSE << >>

\* SiteMonitor.load_previous_data
load_previous_data(file) ==
    CASE file.kind = "list" -> file.current
      [] file.kind = "dict" -> file.current
      [] OTHER -> << >>

\* save_current_data writing the stored history back unrotated
save_current_data_KeepPrevious(file, items, now) ==
    DataFile("dict", items,
             IF file.kind = "dict" THEN file.previous ELSE << >>,
             now,
             IF file.kind = "dict" THEN file.previous_timestamp ELSE 0)

\* SiteMonitor.save_current_data, the write succeeding at time now
save_current_data(file, items, now) ==
    LET has_existing == file.kind \in {"list", "dict"}
    IN  DataFile("dict",
                 items,
                 IF has_existing THEN file.current ELSE << >>,
                 now,
                 IF file.kind = "dict" THEN file.timestamp ELSE 0)

\* the status_data that update_daily_status and send_daily_status read;
\* FileNotFoundError gives the default, undecodable text raises JSONDecodeError
read_status(file) ==
    IF file.kind = "absent" THEN StatusFile("ok", 0, 0) ELSE file

\* Data files a first invocation may find: none, undecodable text, a JSON value
\* of another shape (such as {} or a number), or the plain array an older
\* version saved
LegacyLists == {extract_data(p, "") : p \in {q \in Pages : Len(q) = 1}}

InitDataFiles ==
    {NoDataFile, CorruptDataFile, DataFile("other", << >>, << >>, 0, 0)}
    \cup {DataFile("list", items, << >>, 0, 0) : items \in LegacyLists}

\* Status files a first invocation may find: none, undecodable text, or the one
\* an earlier invocation wrote when it sent the status of day 1
InitStatusFiles ==
    {StatusFile("absent", 0, 0), StatusFile("corrupt", 0, 0), StatusFile("ok", 1, 0)}

Init ==
    /\ dataFile \in InitDataFiles
    /\ statusFile \in InitStatusFiles
    /\ today = 1
    /\ pc = "idle"
    /\ cycle = 0
    /\ target_item = ""
    /\ telegram = FALSE
    /\ current_items = << >>
    /\ previous_items = << >>
    /\ new_items = << >>
    /\ removed_items = << >>
    /\ changed_items = << >>
    /\ message = << >>
    /\ stages = << >>
    /\ outcome = "none"
    /\ scrapeResult = "none"
    /\ changeAlert = "none"
    /\ saveResult = "none"
    /\ startData = dataFile
    /\ startStatus = statusFile
    /\ initialData = dataFile
    /\ statusAlerts = [d \in 1..MaxDay |->
                          IF statusFile.kind = "ok" /\ statusFile.last_sent = d THEN 1 ELSE 0]
    /\ lastReport = [figure |-> 0, covers |-> 0]
    /\ tally = 0
    /\ completed = << >>
    /\ savedTs = << >>
    /\ call = "none"
    /\ args = << >>
    /\ result = << >>

\* monitor() raises out of the stage it is in
Raise ==
    /\ pc' = "idle"
    /\ outcome' = "raised"

\* monitor() line 63: WebScraper.scrape_data.  setup_driver or driver.get
\* raising is logged and re-raised (web_scraper.py 84-86); a failure inside
\* ContestScraper.extract_data is caught there and [] is returned
\* (scrapers/contest_scraper.py 79-81).  An element that fails to parse is
\* skipped, which leaves the list of another, shorter page.
Scrape ==
    /\ pc = "idle"
    /\ cycle < MaxCycles
    /\ cycle' = cycle + 1
    /\ \E t \in Targets, tg \in BOOLEAN : target_item' = t /\ telegram' = tg
    /\ stages' = << "scrape" >>
    /\ startData' = dataFile
    /\ startStatus' = statusFile
    /\ changeAlert' = "none"
    /\ saveResult' = "none"
    /\ previous_items' = << >>
    /\ new_items' = << >>
    /\ removed_items' = << >>
    /\ changed_items' = << >>
    /\ message' = << >>
    /\ \/ /\ scrapeResult' = "driver_error"
          /\ current_items' = << >>
          /\ Raise
       \/ /\ scrapeResult' = "extract_error"
          /\ current_items' = << >>
          /\ pc' = "diff"
          /\ outcome' = "running"
       \/ /\ scrapeResult' = "ok"
          /\ \E page \in Pages : current_items' = extract_data(page, target_item')
          /\ pc' = "diff"
          /\ outcome' = "running"
    /\ call' = "none"
    /\ args' = << >>
    /\ result' = << >>
    /\ UNCHANGED << dataFile, statusFile, today, history >>

\* monitor() with save_current_data moved ahead of load_previous_data
Diff_AfterSave ==
    /\ pc = "diff"
    /\ LET previous == load_previous_data(save_current_data(dataFile, current_items, cycle))
           found == find_changes(current_items, previous)
       IN  /\ previous_items' = previous
           /\ new_items' = found.new
           /\ removed_items' = found.removed
           /\ changed_items' = found.changed
           /\ tally' = tally + Len(found.new) + Len(found.removed) + Len(found.changed)
    /\ stages' = Append(stages, "diff")
    /\ pc' = "count"
    /\ UNCHANGED << applied, dataFile, statusFile, today, cycle, target_item, telegram,
                    current_items, message, outcome, scrapeResult, changeAlert,
                    saveResult, startData, startStatus, initialData, statusAlerts,
                    lastReport, completed, savedTs >>

\* monitor() lines 64-68: load_previous_data, then find_changes
Diff ==
    /\ pc = "diff"
    /\ LET previous == load_previous_data(dataFile)
           found == find_changes(current_items, previous)
       IN  /\ previous_items' = previous
           /\ new_items' = found.new
           /\ removed_items' = found.removed
           /\ changed_items' = found.changed
           /\ tally' = tally + Len(found.new) + Len(found.removed) + Len(found.changed)
    /\ stages' = Append(stages, "diff")
    /\ pc' = "count"
    /\ UNCHANGED << applied, dataFile, statusFile, today, cycle, target_item, telegram,
                    current_items, message, outcome, scrapeResult, changeAlert,
                    saveResult, startData, startStatus, initialData, statusAlerts,
                    lastReport, completed, savedTs >>

\* update_daily_status storing the cycle's total in place of adding it
UpdateDailyStatus_Overwrite ==
    /\ pc = "count"
    /\ stages' = Append(stages, "count")
    /\ IF statusFile.kind = "corrupt"
       THEN /\ Raise
            /\ UNCHANGED statusFile
       ELSE LET status_data == read_status(statusFile)
                total_changes == Len(new_items) + Len(removed_items) + Len(changed_items)
            IN  /\ statusFile' = [status_data EXCEPT !.changes = total_changes]
                /\ pc' = "render"
                /\ UNCHANGED outcome
    /\ UNCHANGED << applied, dataFile, today, cycle, target_item, telegram, current_items,
                    locals, scrapeResult, changeAlert, saveResult, startData,
                    startStatus, history >>

\* monitor() line 71: update_daily_status.  Only FileNotFoundError is caught
\* around json.load: an undecodable status file raises out of monitor().
UpdateDailyStatus ==
    /\ pc = "count"
    /\ stages' = Append(stages, "count")
    /\ IF statusFile.kind = "corrupt"
       THEN /\ Raise
            /\ UNCHANGED statusFile
       ELSE LET status_data == read_status(statusFile)
                total_changes == Len(new_items) + Len(removed_items) + Len(changed_items)
            IN  /\ statusFile' = [status_data EXCEPT !.changes = @ + total_changes]
                /\ pc' = "render"
                /\ UNCHANGED outcome
    /\ UNCHANGED << applied, dataFile, today, cycle, target_item, telegram, current_items,
                    locals, scrapeResult, changeAlert, saveResult, startData,
                    startStatus, history >>

\* monitor() lines 74-85: render the message when anything changed, and go on
\* to send it when the text "Key Change" occurs in it
Render ==
    /\ pc = "render"
    /\ IF new_items # << >> \/ removed_items # << >> \/ changed_items # << >>
       THEN LET r == Formatter_format_changes_message(new_items, removed_items,
                         changed_items, current_items, target_item)
            IN  /\ stages' = Append(stages, "render")
                /\ IF r.raised
                   THEN Raise /\ UNCHANGED message
                   ELSE /\ message' = r.blocks
                        /\ pc' = IF MessageHasKeyChange(r.blocks) THEN "notify" ELSE "save"
                        /\ UNCHANGED outcome
       ELSE /\ pc' = "save"
            /\ UNCHANGED << stages, message, outcome >>
    /\ UNCHANGED << applied, dataFile, statusFile, today, cycle, target_item, telegram,
                    current_items, previous_items, new_items, removed_items,
                    changed_items, scrapeResult, changeAlert, saveResult,
                    startData, startStatus, history >>

\* SiteMonitor.send_telegram_alert: how the hand-over ends.  Without a
\* configured sender the message is dropped with a warning; an exception of
\* TelegramSender.send_message is logged and swallowed.
Deliveries == IF telegram THEN {"sent", "failed"} ELSE {"disabled"}

\* send_telegram_alert letting the exception of send_message through
Notify_Unhandled ==
    /\ pc = "notify"
    /\ \E d \in Deliveries :
          /\ changeAlert' = d
          /\ IF d = "failed"
             THEN Raise
             ELSE pc' = "save" /\ UNCHANGED outcome
    /\ stages' = Append(stages, "notify")
    /\ UNCHANGED << applied, dataFile, statusFile, today, cycle, target_item, telegram,
                    current_items, locals, scrapeResult, saveResult,
                    startData, startStatus, history >>

\* monitor() line 81: send_telegram_alert(message)
Notify ==
    /\ pc = "notify"
    /\ \E d \in Deliveries : changeAlert' = d
    /\ stages' = Append(stages, "notify")
    /\ pc' = "save"
    /\ UNCHANGED << applied, dataFile, statusFile, today, cycle, target_item, telegram,
                    current_items, locals, outcome, scrapeResult, saveResult,
                    startData, startStatus, history >>

\* How the write of save_current_data ends: done; open(..., "w") refused, the
\* file untouched; or json.dump failing after open truncated the file, which
\* leaves undecodable text.  Either failure is logged and swallowed.
SaveResults == {"ok", "open_error", "write_error"}

\* monitor() lines 88-96: display the items, then save_current_data
Save ==
    /\ pc = "save"
    /\ \E res \in SaveResults :
          /\ saveResult' = res
          /\ dataFile' = CASE res = "ok" -> save_current_data(dataFile, current_items, cycle)
                           [] res = "open_error" -> dataFile
                           [] res = "write_error" -> CorruptDataFile
          /\ savedTs' = IF res = "ok" THEN Append(savedTs, cycle) ELSE savedTs
    /\ stages' = Append(stages, "persist")
    /\ pc' = "status"
    /\ UNCHANGED << applied, statusFile, today, cycle, target_item, telegram, current_items,
                    locals, outcome, scrapeResult, changeAlert, startData,
                    startStatus, initialData, statusAlerts, lastReport, tally, completed >>

\* send_daily_status writing the reset counter without the new last_sent
SendDailyStatus_KeepDate ==
    /\ pc = "status"
    /\ stages' = Append(stages, "status")
    /\ IF statusFile.kind = "corrupt"
       THEN /\ Raise
            /\ UNCHANGED << statusFile, history >>
       ELSE LET status_data == read_status(statusFile)
                last_sent == status_data.last_sent
                changes == status_data.changes
            IN  /\ IF last_sent = 0 \/ last_sent < today
                   THEN /\ statusAlerts' = [statusAlerts EXCEPT ![today] = @ + 1]
                        /\ lastReport' = [figure |-> changes, covers |-> tally]
                        /\ tally' = 0
                        /\ statusFile' = StatusFile("ok", last_sent, 0)
                   ELSE /\ statusFile' = status_data
                        /\ UNCHANGED << statusAlerts, lastReport, tally >>
                /\ completed' = Append(completed, current_items)
                /\ pc' = "idle"
                /\ outcome' = "completed"
                /\ UNCHANGED << initialData, savedTs >>
    /\ UNCHANGED << applied, dataFile, today, cycle, target_item, telegram, current_items,
                    locals, scrapeResult, changeAlert, saveResult, startData,
                    startStatus >>

\* monitor() line 99: send_daily_status
SendDailyStatus ==
    /\ pc = "status"
    /\ stages' = Append(stages, "status")
    /\ IF statusFile.kind = "corrupt"
       THEN /\ Raise
            /\ UNCHANGED << statusFile, history >>
       ELSE LET status_data == read_status(statusFile)
                last_sent == status_data.last_sent
                changes == status_data.changes
            IN  /\ IF last_sent = 0 \/ last_sent < today
                   THEN /\ statusAlerts' = [statusAlerts EXCEPT ![today] = @ + 1]
                        /\ lastReport' = [figure |-> changes, covers |-> tally]
                        /\ tally' = 0
                        /\ statusFile' = StatusFile("ok", today, 0)
                   ELSE /\ statusFile' = status_data
                        /\ UNCHANGED << statusAlerts, lastReport, tally >>
                /\ completed' = Append(completed, current_items)
                /\ pc' = "idle"
                /\ outcome' = "completed"
                /\ UNCHANGED << initialData, savedTs >>
    /\ UNCHANGED << applied, dataFile, today, cycle, target_item, telegram, current_items,
                    locals, scrapeResult, changeAlert, saveResult, startData,
                    startStatus >>

\* Midnight passes (in the configured time zone)
Tick ==
    /\ today < MaxDay
    /\ today' = today + 1
    /\ UNCHANGED << applied, dataFile, statusFile, pc, cycle, target_item, telegram,
                    current_items, locals, stages, outcome, scrapeResult,
                    changeAlert, saveResult, startData, startStatus, history >>

\* What replay_last_changes returns: None, or the message
NoReplay == [none |-> TRUE, blocks |-> << >>]

\* SiteMonitor.replay_last_changes up to the hand-over to Telegram: the diff
\* of the two lists of the stored snapshot, rendered.  A file that is absent
\* or undecodable and a formatter that raises end in the `except Exception`
\* of the method, which returns None
replay_last_changes(file, target) ==
    IF file.kind # "dict" \/ file.previous = << >> THEN NoReplay
    ELSE LET found == find_changes(file.current, file.previous)
         IN  IF found.new = << >> /\ found.removed = << >> /\ found.changed = << >>
             THEN NoReplay
             ELSE LET r == Formatter_format_changes_message(found.new, found.removed,
                               found.changed, file.current, target)
                  IN  IF r.raised THEN NoReplay
                      ELSE [none |-> FALSE, blocks |-> r.blocks]

\* An invocation with --replay (contest_monitor.py main): replay_last_changes
\* in place of monitor(), under the --target and the Telegram settings of the
\* deployment's preceding invocation; the message goes through
\* send_telegram_alert
Replay ==
    /\ pc = "idle"
    /\ LET r == replay_last_changes(dataFile, target_item)
       IN  /\ call' = "replay_last_changes"
           /\ args' = [target_item |-> target_item, telegram |-> telegram]
           /\ \E d \in (IF r.none THEN {"none"} ELSE Deliveries) :
                 result' = << [none |-> r.none, blocks |-> r.blocks, alert |-> d] >>
    /\ UNCHANGED << dataFile, statusFile, today, pc, cycle, target_item, telegram,
                    current_items, locals, stages, outcome, scrapeResult,
                    changeAlert, saveResult, startData, startStatus, history >>

Next ==
    \/ Scrape
    \/ Diff
    \/ UpdateDailyStatus
    \/ Render
    \/ Notify
    \/ Save
    \/ SendDailyStatus
    \/ Replay
    \/ Tick

Spec == Init /\ [][Next]_vars

(***************************************************************************)
(* find_changes on drawn inputs: the stored list and the scraped list are  *)
(* any two record lists of at most MaxLen records, and Diff applies        *)
(* find_changes to them.                                                   *)
(***************************************************************************)
\* rank, votes and target marker of the drawn records: two shapes that differ
\* in the ignored field only, and one that differs from both in rank and votes
DrawnShapes ==
    {[rank |-> 1, votes |-> 1, is_target |-> "False"],
     [rank |-> 1, votes |-> 1, is_target |-> "True"],
     [rank |-> 2, votes |-> 2, is_target |-> "False"]}

\* a record stored without the votes field
DrawnWithoutVotes == {[name |-> "Roo", rank |-> 1, is_target |-> "False"]}

\* every page name in every shape, the name that shares a key with another
\* one in the first shape, and the record without votes
DrawnRecords ==
    {[name |-> n, rank |-> sh.rank, votes |-> sh.votes, is_target |-> sh.is_target] :
        n \in PageNames, sh \in DrawnShapes}
    \cup {[name |-> n, rank |-> 1, votes |-> 1, is_target |-> "False"] : n \in Names \ PageNames}
    \cup DrawnWithoutVotes

DrawnLists == UNION {[1..n -> DrawnRecords] : n \in 0..MaxLen}

InitDiff ==
    /\ \E previous \in DrawnLists : dataFile = DataFile("list", previous, << >>, 0, 0)
    /\ current_items \in DrawnLists
    /\ statusFile = StatusFile("absent", 0, 0)
    /\ today = 1
    /\ pc = "diff"
    /\ cycle = 1
    /\ target_item = ""
    /\ telegram = FALSE
    /\ previous_items = << >>
    /\ new_items = << >>
    /\ removed_items = << >>
    /\ changed_items = << >>
    /\ message = << >>
    /\ stages = << "scrape" >>
    /\ outcome = "running"
    /\ scrapeResult = "ok"
    /\ changeAlert = "none"
    /\ saveResult = "none"
    /\ startData = dataFile
    /\ startStatus = statusFile
    /\ initialData = dataFile
    /\ statusAlerts = [d \in 1..MaxDay |-> 0]
    /\ lastReport = [figure |-> 0, covers |-> 0]
    /\ tally = 0
    /\ completed = << >>
    /\ savedTs = << >>
    /\ call = "none"
    /\ args = << >>
    /\ result = << >>

SpecDiff == InitDiff /\ [][Diff]_vars

(***************************************************************************)
(* The selection and rendering functions on drawn inputs: each action      *)
(* applies one function to arguments of its choice and records the call.   *)
(***************************************************************************)
\* target_item of the scraper: None (written ""), or the target in two spellings
FocusTargets == {"", "roo", "ROO"}

\* The record at position i of a ranking of n: the positions in matching hold
\* names that contain "roo" (the first of them Roo itself), the others are
\* entrants named by their position; ranked records carry rank i + shift, the
\* others no rank; the votes fall with the position
RankedItem(i, n, matching, shift, ranked) ==
    LET name == IF i \in matching
                THEN (IF \A j \in matching : i <= j THEN "Roo" ELSE "Kangaroo")
                ELSE "entrant " \o IntStr(i)
    IN  IF ranked
        THEN [name |-> name, rank |-> i + shift, votes |-> n - i + 1,
              is_target |-> IsTargetValue(name, "roo")]
        ELSE [name |-> name, votes |-> n - i + 1,
              is_target |-> IsTargetValue(name, "roo")]

\* Rankings of at most MaxRanked records, sorted by rank, with at most two
\* matching names; the ranks start at 1 or past the top ranks, or are absent
RankedLists ==
    {[i \in 1..n |-> RankedItem(i, n, matching, shift, ranked)] :
        n \in 0..MaxRanked,
        matching \in {m \in SUBSET (1..MaxRanked) : Cardinality(m) <= 2},
        shift \in {0, top_ranks},
        ranked \in BOOLEAN}

\* max_items as the two formatters pass it
FocusSizes == {focus_max_items, contest_focus_max_items}

\* ItemChange(old_item, new_item, changes) as _find_changed_items builds it
ItemChange(old_item, new_item) ==
    [old_item |-> old_item, new_item |-> new_item,
     changes |-> get_item_changes(old_item, new_item)]

\* Records handed to filter_to_target_only: contestants, and a product of
\* ProductScraper, which has a title and no name
FilterRecords ==
    {[name |-> "Roo", rank |-> 1, votes |-> 1, is_target |-> "True"],
     [name |-> "Kangaroo", rank |-> 2, votes |-> 1, is_target |-> "False"],
     [name |-> "Fido", rank |-> 3, votes |-> 1, is_target |-> "False"],
     [id |-> "p1", title |-> "Roo"]}

\* ItemChanges handed to it: contestants that moved up, and records keyed by
\* id whose name changed to or from the target's
FilterChanges ==
    {ItemChange([name |-> n, rank |-> 2, votes |-> 1, is_target |-> "False"],
                [name |-> n, rank |-> 1, votes |-> 1, is_target |-> "False"]) :
        n \in {"Roo", "Kangaroo", "Fido"}}
    \cup {ItemChange([id |-> "p1", name |-> "Roo"], [id |-> "p1", name |-> "Fido"]),
          ItemChange([id |-> "p1", name |-> "Fido"], [id |-> "p1", name |-> "Roo"])}

ListsOf(S, len) == UNION {[1..n -> S] : n \in 0..len}

\* a call of filter_to_target_only is drawn
FilterCall ==
    \E new \in ListsOf(FilterRecords, MaxLen),
       removed \in ListsOf(FilterRecords, 1),
       changed \in ListsOf(FilterChanges, MaxLen),
       t \in FocusTargets :
        /\ call = "ChangeFinder.filter_to_target_only"
        /\ args = [new_items |-> new, removed_items |-> removed,
                   changed_items |-> changed, target_item |-> t]

\* A contestant record with or without a rank (rank 0 stands for none here)
Contestant(name, rank, votes) ==
    IF rank = 0
    THEN [name |-> name, votes |-> votes, is_target |-> IsTargetValue(name, "roo")]
    ELSE [name |-> name, rank |-> rank, votes |-> votes,
          is_target |-> IsTargetValue(name, "roo")]

\* The ItemChange of a contestant from old_rank to new_rank, its votes
\* unchanged or grown by one
Moved(name, old_rank, new_rank, gained) ==
    ItemChange(Contestant(name, old_rank, 1), Contestant(name, new_rank, 1 + gained))

\* The ItemChanges of one name: Fido in every move among no rank and ranks
\* 1..3, the others in a few; find_changes reports none with empty changes
ChangesOf(name) ==
    LET moves == CASE name = "Fido" ->
                        {Moved(name, o, n, g) : o \in 0..3, n \in 0..3, g \in 0..1}
                   [] name = "Key Change" ->
                        {Moved(name, 3, 1, 0), Moved(name, 1, 1, 1), Moved(name, 2, 3, 0)}
                   [] name = "Roo" ->
                        {Moved(name, 3, 2, 0), Moved(name, 2, 2, 1)}
                   [] OTHER ->
                        {Moved(name, 3, 2, 1)}
    IN  {c \in moves : DOMAIN c.changes # {}}

ChangedNames == {"Roo", "Kangaroo", "Fido", "Key Change"}

\* Lists of at most len ItemChanges, one at most for a name
ChangedLists(len) ==
    {changed \in UNION {[1..n -> UNION {ChangesOf(name) : name \in ChangedNames}] :
                            n \in 0..len} :
        \A i, j \in 1..Len(changed) :
            changed[i].new_item.name = changed[j].new_item.name => i = j}

\* current_items: the target second or third, the target without a rank, no
\* target, no record at all, and Kangaroo matching before Roo does
CurrentLists ==
    {<< Contestant("Fido", 1, 3), Contestant("Roo", 2, 2), Contestant("Key Change", 3, 1) >>,
     << Contestant("Fido", 1, 3), Contestant("Key Change", 2, 2), Contestant("Roo", 3, 1) >>,
     << Contestant("Fido", 0, 3), Contestant("Roo", 0, 2) >>,
     << Contestant("Fido", 1, 3) >>,
     << >>,
     << Contestant("Fido", 1, 3), Contestant("Kangaroo", 2, 2), Contestant("Roo", 3, 1) >>}

\* max_results of the formatter: its default, and one that cuts the lists drawn
ResultLimits == {MaxChanged - 1, contest_max_results}

\* a call of ContestFormatter._get_focused_changes is drawn
ChangesCall ==
    \E changed \in ChangedLists(MaxChanged), current \in CurrentLists,
       t \in FocusTargets, limit \in ResultLimits :
        /\ call = "ContestFormatter._get_focused_changes"
        /\ args = [changed_items |-> changed, current_items |-> current,
                   target_item |-> t, max_results |-> limit]

\* An ItemChange as the tuple (old_item, new_item, changes) of Formatter's
\* signature, changes mapping a field to (old_val, new_val)
TupleOf(item_change) ==
    << item_change.old_item, item_change.new_item,
       [f \in DOMAIN item_change.changes |->
           << item_change.changes[f].old_value, item_change.changes[f].new_value >>] >>

\* Lists longer than the smaller max_results: three new contestants, and the
\* ItemChanges of three contestants
LongNewLists ==
    {<< Contestant("Kangaroo", 1, 3), Contestant("Fido", 2, 2),
        Contestant("Key Change", 3, 1) >>}

LongChangedLists ==
    {<< Moved("Roo", 3, 2, 0), Moved("Fido", 2, 1, 0), Moved("Key Change", 1, 1, 1) >>}

\* a call of ContestFormatter.format_changes_message is drawn
ContestMessageCall ==
    \E new \in ListsOf({Contestant("Kangaroo", 2, 2)}, 1) \cup LongNewLists,
       removed \in ListsOf({Contestant("Key Change", 3, 1)}, 1),
       changed \in ChangedLists(MaxBlock) \cup LongChangedLists,
       current \in CurrentLists,
       t \in FocusTargets, limit \in ResultLimits :
        /\ call = "ContestFormatter.format_changes_message"
        /\ args = [new_items |-> new, removed_items |-> removed,
                   changed_items |-> changed, current_items |-> current,
                   target_item |-> t, max_results |-> limit]

\* a call of Formatter.format_changes_message is drawn
FormatterMessageCall ==
    \E new \in ListsOf({Contestant("Kangaroo", 2, 2)}, 1),
       removed \in ListsOf({Contestant("Key Change", 3, 1)}, 1),
       changed \in ChangedLists(MaxBlock), current \in CurrentLists,
       t \in FocusTargets :
        /\ call = "Formatter.format_changes_message"
        /\ args = [new_items |-> new, removed_items |-> removed,
                   changed_items |-> [i \in 1..Len(changed) |-> TupleOf(changed[i])],
                   current_items |-> current,
                   target_item |-> t, max_results |-> max_results]

\* a call of one of the two _get_focused_rankings is drawn
RankingCall(name) ==
    \E items \in RankedLists, max_items \in FocusSizes, t \in FocusTargets :
        /\ call = name
        /\ args = [items |-> items, max_items |-> max_items, target_item |-> t]

\* What the Telegram API does with one sendMessage request: it accepts it,
\* answers with "ok" false, or the HTTP request itself fails
ApiReplies == {"ok", "not_ok", "request_error"}

\* TelegramSender.call_api: the class of the exception it leaves with.  The
\* refusal raises a plain Exception inside the try, the RequestException of
\* a failed request is caught and raised again as a plain Exception
call_api(reply) ==
    IF reply = "ok" THEN "none" ELSE "Exception"

\* the exception classes the handler inside the loop of send_message catches
SendMessageCatches == {"RequestException"}

\* The loop of TelegramSender.send_message from chat id i on: an exception the
\* handler does not catch leaves the method at the chat id that raised it
RECURSIVE SendLoop(_, _, _)
SendLoop(replies, i, success_count) ==
    IF i > Len(replies)
    THEN [raised |-> FALSE, value |-> success_count = Len(replies),
          attempted |-> Len(replies)]
    ELSE LET e == call_api(replies[i])
         IN  IF e = "none" THEN SendLoop(replies, i + 1, success_count + 1)
             ELSE IF e \in SendMessageCatches
                  THEN SendLoop(replies, i + 1, success_count)
                  ELSE [raised |-> TRUE, value |-> FALSE, attempted |-> i]

\* TelegramSender.send_message over the configured chat ids, replies[i] being
\* what the API does with the request for the i-th chat id
send_message(replies) == SendLoop(replies, 1, 0)

\* send_telegram_alert without its except clause
send_telegram_alert_Unhandled(enabled, replies) ==
    IF ~enabled THEN [raised |-> FALSE, alert |-> "disabled"]
    ELSE LET r == send_message(replies)
         IN  IF r.raised THEN [raised |-> TRUE, alert |-> "failed"]
             ELSE [raised |-> FALSE, alert |-> "sent"]

\* SiteMonitor.send_telegram_alert: without a sender the message is dropped
\* with a warning; an exception of send_message is logged and swallowed
send_telegram_alert(enabled, replies) ==
    IF ~enabled THEN [raised |-> FALSE, alert |-> "disabled"]
    ELSE LET r == send_message(replies)
         IN  [raised |-> FALSE, alert |-> IF r.raised THEN "failed" ELSE "sent"]

\* SiteMonitor.send_daily_status on the given status file and date: the file
\* it leaves and what became of the status message.  An undecodable file
\* raises JSONDecodeError at json.load, only FileNotFoundError being caught
send_daily_status(file, day, enabled, replies) ==
    IF file.kind = "corrupt"
    THEN [raised |-> TRUE, file |-> file, alert |-> "none"]
    ELSE LET status_data == read_status(file)
             last_sent == status_data.last_sent
         IN  IF last_sent = 0 \/ last_sent < day
             THEN LET a == send_telegram_alert(enabled, replies)
                  IN  IF a.raised
                      THEN [raised |-> TRUE, file |-> file, alert |-> a.alert]
                      ELSE [raised |-> FALSE, file |-> StatusFile("ok", day, 0),
                            alert |-> a.alert]
             ELSE [raised |-> FALSE, file |-> status_data, alert |-> "none"]

\* Status files send_daily_status may find: none, undecodable text, or one
\* written on some day (0: last_sent null) with some count of changes
StatusFiles ==
    {StatusFile("absent", 0, 0), StatusFile("corrupt", 0, 0)}
    \cup {StatusFile("ok", d, n) : d \in 0..MaxDay, n \in 0..MaxLen}

StatusCall ==
    \E file \in StatusFiles, day \in 1..MaxDay, enabled \in BOOLEAN :
        \E n \in 1..MaxChats : \E replies \in [1..n -> ApiReplies] :
            /\ call = "SiteMonitor.send_daily_status"
            /\ args = [file |-> file, today |-> day, enabled |-> enabled,
                       replies |-> replies]

\* one to MaxChats configured chat ids and the API's reply for each
SendCall ==
    \E n \in 1..MaxChats : \E replies \in [1..n -> ApiReplies] :
        /\ call = "TelegramSender.send_message"
        /\ args = [replies |-> replies]

\* a call is drawn and pending: nothing is returned yet
InitFocus ==
    /\ \/ FilterCall
       \/ SendCall
       \/ StatusCall
       \/ ChangesCall
       \/ ContestMessageCall
       \/ FormatterMessageCall
       \/ RankingCall("ContestFormatter._get_focused_rankings")
       \/ RankingCall("Formatter._get_focused_rankings")
    /\ result = << >>
    /\ dataFile = NoDataFile
    /\ statusFile = StatusFile("absent", 0, 0)
    /\ today = 1
    /\ pc = "done"
    /\ cycle = 1
    /\ target_item = IF "target_item" \in DOMAIN args THEN args.target_item ELSE ""
    /\ telegram = (call = "TelegramSender.send_message")
    /\ current_items = << >>
    /\ previous_items = << >>
    /\ new_items = << >>
    /\ removed_items = << >>
    /\ changed_items = << >>
    /\ message = << >>
    /\ stages = << >>
    /\ outcome = "running"
    /\ scrapeResult = "ok"
    /\ changeAlert = "none"
    /\ saveResult = "none"
    /\ startData = dataFile
    /\ startStatus = statusFile
    /\ initialData = dataFile
    /\ statusAlerts = [d \in 1..MaxDay |-> 0]
    /\ lastReport = [figure |-> 0, covers |-> 0]
    /\ tally = 0
    /\ completed = << >>
    /\ savedTs = << >>

\* the pending call is the named one
Pending(name) == call = name /\ result = << >>

\* the named call has returned
Returned(name) == call = name /\ result # << >>

\* ChangeFinder.filter_to_target_only(new_items, removed_items, changed_items)
FilterToTargetOnly ==
    /\ Pending("ChangeFinder.filter_to_target_only")
    /\ result' = << filter_to_target_only(args.new_items, args.removed_items,
                                          args.changed_items, args.target_item) >>
    /\ UNCHANGED << monitor, call, args >>

\* ContestFormatter._get_focused_rankings(items, max_items)
GetFocusedRankings ==
    /\ Pending("ContestFormatter._get_focused_rankings")
    /\ result' = << ContestFormatter_get_focused_rankings(args.items, args.max_items,
                                                          args.target_item) >>
    /\ UNCHANGED << monitor, call, args >>

\* Formatter._get_focused_rankings(items, max_items)
FormatterGetFocusedRankings ==
    /\ Pending("Formatter._get_focused_rankings")
    /\ result' = << Formatter_get_focused_rankings(args.items, args.max_items,
                                                   args.target_item) >>
    /\ UNCHANGED << monitor, call, args >>

\* ContestFormatter._get_focused_changes(changed_items, current_items)
GetFocusedChanges ==
    /\ Pending("ContestFormatter._get_focused_changes")
    /\ result' = << ContestFormatter_get_focused_changes(args.changed_items,
                        args.current_items, args.target_item, args.max_results) >>
    /\ UNCHANGED << monitor, call, args >>

\* ContestFormatter.format_changes_message(new_items, removed_items,
\* changed_items, current_items)
ContestFormatChangesMessage ==
    /\ Pending("ContestFormatter.format_changes_message")
    /\ result' = << ContestFormatter_format_changes_message(args.new_items,
                        args.removed_items, args.changed_items, args.current_items,
                        args.target_item, args.max_results) >>
    /\ UNCHANGED << monitor, call, args >>

\* Formatter.format_changes_message(new_items, removed_items, changed_items,
\* current_items)
FormatterFormatChangesMessage ==
    /\ Pending("Formatter.format_changes_message")
    /\ result' = << Formatter_format_changes_message_tuples(args.new_items,
                        args.removed_items, args.changed_items, args.current_items,
                        args.target_item) >>
    /\ UNCHANGED << monitor, call, args >>

\* TelegramSender.send_message(message)
SendMessage ==
    /\ Pending("TelegramSender.send_message")
    /\ result' = << send_message(args.replies) >>
    /\ UNCHANGED << monitor, call, args >>

\* SiteMonitor.send_daily_status(items_checked)
SendDailyStatusCall ==
    /\ Pending("SiteMonitor.send_daily_status")
    /\ result' = << send_daily_status(args.file, args.today, args.enabled,
                                      args.replies) >>
    /\ UNCHANGED << monitor, call, args >>

NextFocus ==
    \/ FilterToTargetOnly
    \/ SendMessage
    \/ SendDailyStatusCall
    \/ GetFocusedChanges
    \/ ContestFormatChangesMessage
    \/ FormatterFormatChangesMessage
    \/ GetFocusedRankings
    \/ FormatterGetFocusedRankings

SpecFocus == InitFocus /\ [][NextFocus]_vars

(***************************************************************************)
(* Vocabulary of the properties                                            *)
(***************************************************************************)
KeysOf(items) == {get_item_key(items[i]) : i \in 1..Len(items)}

\* Position of the first record of items that has the key
FirstWithKey(items, key) ==
    CHOOSE i \in 1..Len(items) :
        /\ get_item_key(items[i]) = key
        /\ \A j \in 1..(i - 1) : get_item_key(items[j]) # key

\* The record that stands for the key: the last one of items that has it
LastWithKey(items, key) ==
    LET at == CHOOSE i \in 1..Len(items) :
                  /\ get_item_key(items[i]) = key
                  /\ \A j \in (i + 1)..Len(items) : get_item_key(items[j]) # key
    IN  items[at]

\* Non-ignored fields held by both records with different values
DifferingFields(old, new) ==
    {f \in (DOMAIN old \cap DOMAIN new) \ {"is_target"} : old[f] # new[f]}

Diffed == pc # "diff" /\ "diff" \in Range(stages)

(***************************************************************************)
(* C1: find_changes returns in `new` exactly one record for each key that  *)
(* occurs in current and not in previous, the keys in the order in which   *)
(* current first shows them; in `removed` exactly one record for each key  *)
(* that occurs in previous and not in current; and no key occurs in more   *)
(* than one of new, removed and changed.                                   *)
(***************************************************************************)
ChangedKeys == {get_item_key(changed_items[i].new_item) : i \in 1..Len(changed_items)}

C1_PartitionByKey ==
    Diffed =>
        LET current_only == KeysOf(current_items) \ KeysOf(previous_items)
            previous_only == KeysOf(previous_items) \ KeysOf(current_items)
        IN  /\ KeysOf(new_items) = current_only
            /\ Len(new_items) = Cardinality(current_only)
            /\ Range(new_items) \subseteq Range(current_items)
            /\ \A i, j \in 1..Len(new_items) :
                   i < j => FirstWithKey(current_items, get_item_key(new_items[i]))
                              < FirstWithKey(current_items, get_item_key(new_items[j]))
            /\ KeysOf(removed_items) = previous_only
            /\ Len(removed_items) = Cardinality(previous_only)
            /\ Range(removed_items) \subseteq Range(previous_items)
            /\ KeysOf(new_items) \cap KeysOf(removed_items) = {}
            /\ KeysOf(new_items) \cap ChangedKeys = {}
            /\ KeysOf(removed_items) \cap ChangedKeys = {}

\* a diff with a new and a removed record, the new key held by two different
\* records of current
C1_Witness ==
    /\ Diffed
    /\ Len(current_items) = 2
    /\ get_item_key(current_items[1]) = get_item_key(current_items[2])
    /\ current_items[1] # current_items[2]
    /\ Len(new_items) = 1
    /\ Len(removed_items) = 1

(***************************************************************************)
(* C2: a key present in both snapshots yields an ItemChange in `changed`   *)
(* if and only if at least one non-ignored field of its record has         *)
(* different values in the old and the new record; every ItemChange has a  *)
(* non-empty changes map holding exactly the differing fields.             *)
(***************************************************************************)
C2_ChangedIffFieldDiffers ==
    Diffed =>
        /\ \A key \in KeysOf(current_items) \cap KeysOf(previous_items) :
               (key \in ChangedKeys)
                   <=> DifferingFields(LastWithKey(previous_items, key),
                                       LastWithKey(current_items, key)) # {}
        /\ ChangedKeys \subseteq KeysOf(current_items) \cap KeysOf(previous_items)
        /\ \A i \in 1..Len(changed_items) :
               LET change == changed_items[i]
                   key == get_item_key(change.new_item)
               IN  /\ change.old_item = LastWithKey(previous_items, key)
                   /\ change.new_item = LastWithKey(current_items, key)
                   /\ DOMAIN change.changes # {}
                   /\ DOMAIN change.changes
                        = DifferingFields(change.old_item, change.new_item)
                   /\ \A f \in DOMAIN change.changes :
                          /\ change.changes[f].field_name = f
                          /\ change.changes[f].old_value = StrOf(f, change.old_item[f])
                          /\ change.changes[f].new_value = StrOf(f, change.new_item[f])
        /\ \A i, j \in 1..Len(changed_items) :
               get_item_key(changed_items[i].new_item)
                   = get_item_key(changed_items[j].new_item) => i = j

\* one key changed in two fields, another key present in both snapshots with
\* only its ignored field different
C2_Witness ==
    /\ Diffed
    /\ Len(changed_items) = 1
    /\ DOMAIN changed_items[1].changes = {"rank", "votes"}
    /\ \E key \in (KeysOf(current_items) \cap KeysOf(previous_items)) \ ChangedKeys :
           LastWithKey(previous_items, key).is_target
               # LastWithKey(current_items, key).is_target

(***************************************************************************)
(* Vocabulary of the cycle properties                                      *)
(***************************************************************************)
\* the rendered message holds a changed-items block
HasChangedBlock(blocks) == \E i \in 1..Len(blocks) : blocks[i].kind = "changed"

\* a change notification was handed to send_telegram_alert in this cycle
Dispatched == changeAlert # "none"

\* the cycle's scrape did not deliver the page: the driver failed, or the page
\* did not load within extract_data
ScrapeFailed == scrapeResult \in {"driver_error", "extract_error"}

\* monitor() has returned or raised
CycleOver == pc = "idle" /\ cycle >= 1

(***************************************************************************)
(* C3: a change notification is handed to the notifier if and only if the  *)
(* rendered message contains a changed-items block; a cycle whose only     *)
(* differences are new and/or removed records dispatches none.             *)
(***************************************************************************)
C3_DispatchIffChangedBlock ==
    /\ Dispatched => HasChangedBlock(message)
    /\ (CycleOver /\ outcome = "completed" /\ HasChangedBlock(message)) => Dispatched
    /\ ("diff" \in Range(stages) /\ changed_items = << >>) => ~Dispatched

(***************************************************************************)
(* C4: if scraping fails in a cycle, the failure propagates out of         *)
(* monitor(), no notification is sent, and the snapshot file and the       *)
(* daily-status file are as they were before the cycle; here for a cycle   *)
(* that started with records in the snapshot file.                         *)
(***************************************************************************)
C4_FailedScrapeLeavesFiles ==
    (CycleOver /\ ScrapeFailed /\ load_previous_data(startData) # << >>) =>
        /\ outcome = "raised"
        /\ ~Dispatched
        /\ dataFile = startData
        /\ statusFile = startStatus

(***************************************************************************)
(* C5: every cycle whose scrape succeeds goes on to write the new          *)
(* snapshot: nothing in diffing, daily-status accounting, rendering or     *)
(* notification ends the cycle before save_current_data runs.              *)
(***************************************************************************)
C5_ScrapedCycleReachesSave ==
    (CycleOver /\ scrapeResult = "ok") =>
        /\ outcome = "completed"
        /\ "persist" \in Range(stages)

(***************************************************************************)
(* C6: when delivery of the change notification fails with a transport     *)
(* error, monitor() does not raise and save_current_data runs in that same *)
(* cycle, writing the scraped records when its own write succeeds.         *)
(***************************************************************************)
C6_FailedDeliveryStillPersists ==
    changeAlert = "failed" =>
        /\ outcome # "raised"
        /\ pc \in {"save", "status", "idle"}
        /\ pc \in {"status", "idle"} =>
              /\ "persist" \in Range(stages)
              /\ saveResult = "ok" =>
                    /\ dataFile.kind = "dict"
                    /\ dataFile.current = current_items
                    /\ dataFile.timestamp = cycle

\* a cycle whose change notification failed in transport has completed with
\* the scraped records on file
C6_Witness ==
    /\ CycleOver
    /\ changeAlert = "failed"
    /\ outcome = "completed"
    /\ current_items # << >>
    /\ dataFile.current = current_items
    /\ dataFile # startData

LastAlertDay ==
    IF \E d \in 1..MaxDay : statusAlerts[d] > 0
    THEN CHOOSE d \in 1..MaxDay :
             /\ statusAlerts[d] > 0
             /\ \A e \in 1..MaxDay : statusAlerts[e] > 0 => e <= d
    ELSE 0

\* this step is monitor() returning
Completes == pc = "status" /\ pc' = "idle" /\ outcome' = "completed"

C8_DailyStatusOncePerDate ==
    /\ [](\A d \in 1..MaxDay : statusAlerts[d] <= 1)
    /\ [][ Completes =>
             IF today > LastAlertDay
             THEN /\ statusAlerts' = [statusAlerts EXCEPT ![today] = 1]
                  /\ statusFile'.kind = "ok"
                  /\ statusFile'.changes = 0
                  /\ statusFile'.last_sent = today
             ELSE /\ statusAlerts' = statusAlerts
                  /\ statusFile'.changes = statusFile.changes ]_vars
    /\ [][ ~Completes => statusAlerts' = statusAlerts ]_vars

\* a status notification went out on each of two dates, the second after a
\* cycle of the first date had completed without one, and the counter is 0
C8_Witness ==
    /\ pc = "idle"
    /\ Len(completed) = 2
    /\ today = 2
    /\ statusAlerts[1] = 1
    /\ statusAlerts[2] = 1
    /\ statusFile = StatusFile("ok", 2, 0)
    /\ lastReport.figure > 0

(***************************************************************************)
(* C9: the changes figure of each daily status notification is the sum of  *)
(* |new| + |removed| + |changed| over every diff computed since the        *)
(* previous status notification, that of the reporting cycle included;     *)
(* between two status notifications the stored counter never decreases.    *)
(***************************************************************************)
C9_FigureSumsDiffSizes ==
    /\ [](lastReport.figure = lastReport.covers)
    /\ []((statusFile.kind = "ok" /\ pc # "count") => statusFile.changes = tally)
    /\ [][ statusFile'.changes >= statusFile.changes
             \/ (Completes /\ statusAlerts' # statusAlerts) ]_vars

\* a status notification whose figure adds the diff of an earlier cycle, one
\* new record, to the diff of the reporting cycle, one new and one removed
C9_Witness ==
    /\ pc = "idle"
    /\ initialData = NoDataFile
    /\ Len(completed) = 2
    /\ Len(completed[1]) = 1
    /\ Len(completed[2]) = 1
    /\ lastReport.figure = 3
    /\ statusFile.changes = 0

(***************************************************************************)
(* C10: within one cycle the stages occur in the fixed order scrape, diff, *)
(* render, notify, persist, each at most once; the diff is computed        *)
(* against the snapshot the cycle found stored, never after the cycle's    *)
(* own save, and the change notification is never dispatched after the     *)
(* snapshot has been written.                                              *)
(***************************************************************************)
StageOrder == << "scrape", "diff", "count", "render", "notify", "persist", "status" >>

StagePos(stage) == CHOOSE k \in 1..Len(StageOrder) : StageOrder[k] = stage

C10_StagesInOrder ==
    /\ Range(stages) \subseteq Range(StageOrder)
    /\ \A i, j \in 1..Len(stages) : i < j => StagePos(stages[i]) < StagePos(stages[j])
    /\ "diff" \in Range(stages) =>
          /\ stages[1] = "scrape"
          /\ previous_items = load_previous_data(startData)
          /\ LET found == find_changes(current_items, load_previous_data(startData))
             IN  /\ new_items = found.new
                 /\ removed_items = found.removed
                 /\ changed_items = found.changed
    /\ "persist" \notin Range(stages) => dataFile = startData
    /\ Dispatched <=> "notify" \in Range(stages)
    /\ pc = "notify" => "persist" \notin Range(stages)

\* a cycle that ran all five stages and changed the stored snapshot
C10_Witness ==
    /\ CycleOver
    /\ stages = StageOrder
    /\ changeAlert = "sent"
    /\ previous_items # << >>
    /\ dataFile # startData
    /\ dataFile.previous = previous_items

(***************************************************************************)
(* C11: find_changes(X, X) returns empty new, empty removed and empty      *)
(* changed for every record list X, lists in which several records share  *)
(* a key included.                                                         *)
(***************************************************************************)
C11_SameListNoChanges ==
    (Diffed /\ previous_items = current_items) =>
        /\ new_items = << >>
        /\ removed_items = << >>
        /\ changed_items = << >>

\* a list diffed against itself in which two different records share a key
C11_Witness ==
    /\ Diffed
    /\ previous_items = current_items
    /\ Len(current_items) = 2
    /\ get_item_key(current_items[1]) = get_item_key(current_items[2])
    /\ current_items[1] # current_items[2]
    /\ new_items = << >>
    /\ changed_items = << >>

(***************************************************************************)
(* C12: when the old and the new record of a key differ in is_target only, *)
(* find_changes produces no ItemChange for that key; and no FieldChange    *)
(* for is_target is ever produced.                                         *)
(***************************************************************************)
\* the two records hold the same fields and differ in is_target only
DifferInTargetOnly(old, new) ==
    /\ DOMAIN old = DOMAIN new
    /\ "is_target" \in DOMAIN old
    /\ old.is_target # new.is_target
    /\ \A f \in DOMAIN old \ {"is_target"} : old[f] = new[f]

C12_IgnoredFieldUnreported ==
    Diffed =>
        /\ \A key \in KeysOf(current_items) \cap KeysOf(previous_items) :
               DifferInTargetOnly(LastWithKey(previous_items, key),
                                  LastWithKey(current_items, key))
                   => key \notin ChangedKeys
        /\ \A i \in 1..Len(changed_items) :
               "is_target" \notin DOMAIN changed_items[i].changes

\* the only stored record and the only scraped record have one key and differ
\* in is_target alone; nothing is reported
C12_Witness ==
    /\ Diffed
    /\ Len(previous_items) = 1
    /\ Len(current_items) = 1
    /\ DifferInTargetOnly(previous_items[1], current_items[1])
    /\ changed_items = << >>
    /\ new_items = << >>
    /\ removed_items = << >>

(***************************************************************************)
(* C13: a field present in the new record of a key and absent from its old *)
(* record never produces a FieldChange, and a record that merely gained    *)
(* such a field is not reported as changed.                                *)
(***************************************************************************)
\* the new record holds every field of the old one with the same value, and
\* at least one field more
MerelyGainedFields(old, new) ==
    /\ DOMAIN old \subseteq DOMAIN new
    /\ DOMAIN old # DOMAIN new
    /\ \A f \in DOMAIN old : old[f] = new[f]

C13_GainedFieldUnreported ==
    Diffed =>
        /\ \A i \in 1..Len(changed_items) :
               DOMAIN changed_items[i].changes \subseteq DOMAIN changed_items[i].old_item
        /\ \A key \in KeysOf(current_items) \cap KeysOf(previous_items) :
               MerelyGainedFields(LastWithKey(previous_items, key),
                                  LastWithKey(current_items, key))
                   => key \notin ChangedKeys

\* a stored record without votes whose scraped record has votes and a new
\* rank: the rank is reported, the votes are not
C13_Witness ==
    /\ Diffed
    /\ Len(changed_items) = 1
    /\ "votes" \notin DOMAIN changed_items[1].old_item
    /\ "votes" \in DOMAIN changed_items[1].new_item
    /\ DOMAIN changed_items[1].changes = {"rank"}

(***************************************************************************)
(* C14: with a target configured, filter_to_target_only returns exactly    *)
(* those new records, removed records and ItemChanges (judged by the new   *)
(* record) whose name contains the target string case-insensitively, in    *)
(* their original order; with no target configured it returns the three    *)
(* inputs unchanged.                                                       *)
(***************************************************************************)
\* the entries of items at the positions in keep, in the order of items
Kept(items, keep) ==
    [k \in 1..Cardinality(keep) |->
        items[CHOOSE i \in keep : Cardinality({j \in keep : j <= i}) = k]]

\* the record has a name, and the name contains the target, case ignored
NameHolds(item, target) ==
    "name" \in DOMAIN item /\ Contains(Lower(item.name), Lower(target))

C14_FilterKeepsMatchingInOrder ==
    Returned("ChangeFinder.filter_to_target_only") =>
        LET r == result[1]
            t == args.target_item
        IN  IF t = ""
            THEN /\ r.new = args.new_items
                 /\ r.removed = args.removed_items
                 /\ r.changed = args.changed_items
            ELSE /\ r.new = Kept(args.new_items,
                         {i \in 1..Len(args.new_items) :
                             NameHolds(args.new_items[i], t)})
                 /\ r.removed = Kept(args.removed_items,
                         {i \in 1..Len(args.removed_items) :
                             NameHolds(args.removed_items[i], t)})
                 /\ r.changed = Kept(args.changed_items,
                         {i \in 1..Len(args.changed_items) :
                             NameHolds(args.changed_items[i].new_item, t)})

\* target "ROO": of the new records Kangaroo is kept and the product titled
\* Roo dropped, and of two ItemChanges the one whose new record took the
\* target's name is kept
C14_Witness ==
    /\ Returned("ChangeFinder.filter_to_target_only")
    /\ args.target_item = "ROO"
    /\ Len(args.new_items) = 2
    /\ "name" \notin DOMAIN args.new_items[1]
    /\ "name" \in DOMAIN args.new_items[2]
    /\ args.new_items[2].name = "Kangaroo"
    /\ result[1].new = << args.new_items[2] >>
    /\ Len(args.changed_items) = 2
    /\ args.changed_items[1].old_item.name = "Roo"
    /\ args.changed_items[1].new_item.name = "Fido"
    /\ args.changed_items[2].old_item.name = "Fido"
    /\ args.changed_items[2].new_item.name = "Roo"
    /\ result[1].changed = << args.changed_items[2] >>

(***************************************************************************)
(* C15: with a target configured, the focused rankings of a list of n      *)
(* items are items[0:max_items] when no record name contains the target;   *)
(* otherwise, with idx the first matching position and r that record's     *)
(* rank (idx+1 when the rank is absent), items[0 : min(idx+2, n)] when     *)
(* r <= 10 and items[max(0, idx-2) : min(n, idx+3)] when r > 10.  The      *)
(* result is then an in-bounds contiguous slice containing the target, a   *)
(* prefix when the target is first and ending at the target when the       *)
(* target is last.                                                         *)
(***************************************************************************)
\* positions (from 1) of the records whose name contains the target
MatchingPositions(items, target) ==
    {i \in 1..Len(items) : NameHolds(items[i], target)}

\* the first of them
FirstMatching(items, target) ==
    CHOOSE i \in MatchingPositions(items, target) :
        \A j \in MatchingPositions(items, target) : i <= j

\* items[lo:hi] for 0 <= lo <= hi <= n
Slice(items, lo, hi) == [k \in 1..(hi - lo) |-> items[lo + k]]

C15_FocusedRankingsSlices ==
    (Returned("ContestFormatter._get_focused_rankings") /\ args.target_item # "") =>
        LET items == args.items
            n == Len(items)
            focused == result[1]
        IN  IF MatchingPositions(items, args.target_item) = {}
            THEN focused = Slice(items, 0, Min(args.max_items, n))
            ELSE LET idx == FirstMatching(items, args.target_item) - 1
                     r == IF "rank" \in DOMAIN items[idx + 1]
                          THEN items[idx + 1].rank ELSE idx + 1
                     lo == IF r <= 10 THEN 0 ELSE Max(0, idx - 2)
                     hi == IF r <= 10 THEN Min(idx + 2, n) ELSE Min(n, idx + 3)
                 IN  /\ focused = Slice(items, lo, hi)
                     /\ 0 <= lo /\ lo <= idx /\ idx < hi /\ hi <= n
                     /\ focused[idx - lo + 1] = items[idx + 1]
                     /\ idx = 0 => lo = 0
                     /\ idx = n - 1 => hi = n

\* the target is the last of MaxRanked records and carries no rank: its
\* position stands for the rank, and the window is the target with the two
\* records above it
C15_Witness ==
    /\ Returned("ContestFormatter._get_focused_rankings")
    /\ args.target_item = "ROO"
    /\ Len(args.items) = MaxRanked
    /\ MatchingPositions(args.items, "roo") = {MaxRanked}
    /\ "rank" \notin DOMAIN args.items[MaxRanked]
    /\ result[1] = Slice(args.items, MaxRanked - 3, MaxRanked)

(***************************************************************************)
(* C16: _get_focused_rankings never returns more than max_items records,   *)
(* for any item list, target position and target rank.                     *)
(***************************************************************************)
C16_AtMostMaxItems ==
    (\/ Returned("ContestFormatter._get_focused_rankings")
     \/ Returned("Formatter._get_focused_rankings")) =>
        Len(result[1]) <= args.max_items

(***************************************************************************)
(* C17: with a target located in current, a non-target ItemChange is       *)
(* included in the focused changes if and only if its new rank is strictly *)
(* lower than the target's current rank and (its old rank is absent, or    *)
(* its old rank is greater than or equal to the target's current rank, or  *)
(* its old rank is lower than the target's current rank and its changes    *)
(* include the votes field).  The target's current rank is the rank of the *)
(* first record of current that matches the target.                        *)
(***************************************************************************)
\* a target is configured, a record of current matches it, and the first
\* that does carries a rank
LocatedWithRank(current, target) ==
    /\ target # ""
    /\ MatchingPositions(current, target) # {}
    /\ "rank" \in DOMAIN current[FirstMatching(current, target)]

TargetCurrentRank(current, target) == current[FirstMatching(current, target)].rank

\* the sequence holds the entry
Shows(seq, entry) == \E k \in 1..Len(seq) : seq[k] = entry

\* the condition of the claim on one ItemChange, t the target's current rank
Threatens(item_change, t) ==
    /\ "rank" \in DOMAIN item_change.new_item
    /\ item_change.new_item.rank < t
    /\ \/ "rank" \notin DOMAIN item_change.old_item
       \/ item_change.old_item.rank >= t
       \/ /\ item_change.old_item.rank < t
          /\ "votes" \in DOMAIN item_change.changes

Located(current, target) ==
    target # "" /\ MatchingPositions(current, target) # {}

\* position in seq of an entry that seq holds once
PositionIn(seq, entry) == CHOOSE k \in 1..Len(seq) : seq[k] = entry

\* focused begins with the first ItemChange of changed whose new record
\* matches the target, if there is one; the entries after it are ItemChanges
\* of changed that do not match, in the order of changed; none is repeated
TargetFirstThenCompetitors(focused, changed, target) ==
    LET own == MatchingPositions(NewItems(changed), target)
        rest == IF own = {} THEN focused ELSE Tail(focused)
    IN  /\ own # {} =>
               /\ focused # << >>
               /\ focused[1] = changed[FirstMatching(NewItems(changed), target)]
        /\ \A k \in 1..Len(rest) :
               /\ Shows(changed, rest[k])
               /\ ~NameHolds(rest[k].new_item, target)
        /\ \A k, l \in 1..Len(rest) :
               k < l => PositionIn(changed, rest[k]) < PositionIn(changed, rest[l])
        /\ \A k, l \in 1..Len(focused) : focused[k] = focused[l] => k = l

\* the statement as claimed: for every target that a record of current matches
C18_TargetFirstWhenLocated ==
    (/\ Returned("ContestFormatter._get_focused_changes")
     /\ Located(args.current_items, args.target_item)) =>
        TargetFirstThenCompetitors(result[1], args.changed_items, args.target_item)

\* C18 as the code has it: with a target located in current whose record
\* carries a rank, the focused changes begin with the target's own
\* ItemChange whenever `changed` contains one, the remaining entries are
\* competitors in the same relative order as in `changed`, and no ItemChange
\* of the input appears more than once.
C18_TargetFirstWhenRanked ==
    (/\ Returned("ContestFormatter._get_focused_changes")
     /\ LocatedWithRank(args.current_items, args.target_item)) =>
        TargetFirstThenCompetitors(result[1], args.changed_items, args.target_item)

\* the target's ItemChange stands between those of two threatening
\* competitors and is shown first, the competitors after it in their order
C18_Witness ==
    /\ Returned("ContestFormatter._get_focused_changes")
    /\ LocatedWithRank(args.current_items, args.target_item)
    /\ Len(args.changed_items) = 3
    /\ args.changed_items[1].new_item.name = "Key Change"
    /\ args.changed_items[2].new_item.name = "Roo"
    /\ args.changed_items[3].new_item.name = "Fido"
    /\ result[1] = << args.changed_items[2], args.changed_items[1], args.changed_items[3] >>

(***************************************************************************)
(* C19: _get_focused_changes falls back to returning the first max_results *)
(* entries of `changed` unfiltered exactly when the target cannot be       *)
(* located in current; whenever a record of current matches the target,    *)
(* the target-first and threat-filter rules are applied instead.           *)
(***************************************************************************)
\* the first max_results entries of changed
Unfiltered(changed, limit) == Slice(changed, 0, Min(limit, Len(changed)))

\* every ItemChange that does not match the target is shown exactly if it
\* threatens the target at rank t
ThreatFilter(focused, changed, target, t) ==
    \A i \in 1..Len(changed) :
        ~NameHolds(changed[i].new_item, target) =>
            (Shows(focused, changed[i]) <=> Threatens(changed[i], t))

\* the statement as claimed: the rules hold for every target that a record
\* of current matches, the threat filter wherever that record has a rank to
\* compare with
C19_FallbackIffNotLocated ==
    (Returned("ContestFormatter._get_focused_changes") /\ args.target_item # "") =>
        IF Located(args.current_items, args.target_item)
        THEN /\ TargetFirstThenCompetitors(result[1], args.changed_items,
                                           args.target_item)
             /\ LocatedWithRank(args.current_items, args.target_item) =>
                    ThreatFilter(result[1], args.changed_items, args.target_item,
                        TargetCurrentRank(args.current_items, args.target_item))
        ELSE result[1] = Unfiltered(args.changed_items, args.max_results)

\* C19 as the code has it: _get_focused_changes falls back to returning the
\* first max_results entries of `changed` unfiltered exactly when no rank can
\* be read for the target from current, that is when no record of current
\* matches the target or the first record that matches carries no rank;
\* whenever the first matching record carries a rank, the target-first and
\* threat-filter rules are applied instead.
C19_FallbackIffNoTargetRank ==
    (Returned("ContestFormatter._get_focused_changes") /\ args.target_item # "") =>
        IF LocatedWithRank(args.current_items, args.target_item)
        THEN /\ TargetFirstThenCompetitors(result[1], args.changed_items,
                                           args.target_item)
             /\ ThreatFilter(result[1], args.changed_items, args.target_item,
                    TargetCurrentRank(args.current_items, args.target_item))
        ELSE result[1] = Unfiltered(args.changed_items, args.max_results)

\* the record of current that matches the target has no rank: of three
\* ItemChanges the first max_results = 2 are returned as they stand, a
\* competitor before the target
C19_Witness ==
    /\ Returned("ContestFormatter._get_focused_changes")
    /\ Located(args.current_items, args.target_item)
    /\ ~LocatedWithRank(args.current_items, args.target_item)
    /\ args.max_results = 2
    /\ Len(args.changed_items) = 3
    /\ args.changed_items[1].new_item.name = "Fido"
    /\ args.changed_items[2].new_item.name = "Roo"
    /\ result[1] = << args.changed_items[1], args.changed_items[2] >>

(***************************************************************************)
(* C20: format_changes_message returns exactly the sentinel "No changes    *)
(* detected." whenever none of its blocks has any content; it never        *)
(* returns an empty string or a message made only of block separators.     *)
(***************************************************************************)
\* a message was returned, by either formatter
MessageReturned ==
    /\ \/ Returned("ContestFormatter.format_changes_message")
       \/ Returned("Formatter.format_changes_message")
    /\ ~result[1].raised

\* the parts joined hold no text: the string is "" or separators only
NoContent(parts) == \A k \in 1..Len(parts) : BlockIsEmptyText(parts[k])

C20_SentinelWhenNoContent ==
    MessageReturned => (NoContent(result[1].parts) => result[1].sentinel)

(***************************************************************************)
(* C21: in every block of the rendered message (new, removed, changed,     *)
(* current rankings), whenever fewer items are listed than the             *)
(* corresponding set contains, the block ends with an "... and N more"     *)
(* line where N is the true count minus the number of items shown.         *)
(***************************************************************************)
\* the list a block of ContestFormatter renders
ListOfBlock(kind) ==
    CASE kind = "new" -> args.new_items
      [] kind = "removed" -> args.removed_items
      [] kind = "changed" -> args.changed_items
      [] kind = "rankings" -> args.current_items

\* the block lists fewer items than its list holds
Truncated(block) == Len(block.shown) < Len(ListOfBlock(block.kind))

\* more = 0 stands for a block without the "... and N more" line
C21_TruncatedBlockSaysHowManyMore ==
    (Returned("ContestFormatter.format_changes_message") /\ ~result[1].raised) =>
        \A k \in 1..Len(result[1].parts) :
            LET block == result[1].parts[k]
            IN  Truncated(block) =>
                    block.more = Len(ListOfBlock(block.kind)) - Len(block.shown)

(***************************************************************************)
(* C22: format_changes_message emits its blocks in the fixed order new     *)
(* items, removed items, changed items, current rankings, each at most     *)
(* once, and emits the current-rankings block if and only if current is    *)
(* supplied non-empty and at least one of new, removed, changed is         *)
(* non-empty.                                                              *)
(***************************************************************************)
BlockOrder == << "new", "removed", "changed", "rankings" >>

\* place of a kind of block in the fixed order
BlockPlace(kind) == CHOOSE i \in 1..Len(BlockOrder) : BlockOrder[i] = kind

C22_BlocksInFixedOrder ==
    MessageReturned =>
        LET parts == result[1].parts
        IN  /\ \A k \in 1..Len(parts) : parts[k].kind \in Range(BlockOrder)
            /\ \A k, l \in 1..Len(parts) :
                   k < l => BlockPlace(parts[k].kind) < BlockPlace(parts[l].kind)
            /\ (\E k \in 1..Len(parts) : parts[k].kind = "rankings")
                   <=> /\ args.current_items # << >>
                       /\ \/ args.new_items # << >>
                          \/ args.removed_items # << >>
                          \/ args.changed_items # << >>

\* new, removed and changed records and a current list: the four blocks, in
\* the fixed order
C22_Witness ==
    /\ MessageReturned
    /\ args.new_items # << >>
    /\ args.removed_items # << >>
    /\ args.changed_items # << >>
    /\ args.current_items # << >>
    /\ [k \in 1..Len(result[1].parts) |-> result[1].parts[k].kind] = BlockOrder

PreviousOf(k) == IF k = 1 THEN load_previous_data(initialData) ELSE completed[k - 1]

DetectedBy(k) == find_changes(completed[k], PreviousOf(k))

Detecting ==
    {k \in 1..Len(completed) :
        LET d == DetectedBy(k)
        IN  d.new # << >> \/ d.removed # << >> \/ d.changed # << >>}

Replayed == pc = "idle" /\ call = "replay_last_changes" /\ result # << >>

AllCyclesSaved == cycle >= 1 /\ Len(completed) = cycle /\ Len(savedTs) = cycle

C24_ReplayShowsLastDetectedChanges ==
    (Replayed /\ AllCyclesSaved /\ Detecting # {}) =>
        LET k == CHOOSE i \in Detecting : \A j \in Detecting : j <= i
            d == DetectedBy(k)
            r == Formatter_format_changes_message(d.new, d.removed, d.changed,
                     completed[k], args.target_item)
        IN  /\ ~result[1].none
            /\ result[1].blocks = r.blocks

(***************************************************************************)
(* C25: TelegramSender.send_message attempts delivery to every configured  *)
(* chat id and returns True exactly when all deliveries succeeded; when a  *)
(* delivery fails it returns False rather than raising and still attempts  *)
(* the remaining chat ids.                                                 *)
(***************************************************************************)
C25_SendMessageReportsEveryDelivery ==
    Returned("TelegramSender.send_message") =>
        LET r == result[1]
        IN  /\ ~r.raised
            /\ r.attempted = Len(args.replies)
            /\ r.value <=> \A i \in 1..Len(args.replies) : args.replies[i] = "ok"

(***************************************************************************)
(* C26: if two consecutive cycles scrape the same record list and the      *)
(* first one persisted its snapshot, the second cycle finds no new,        *)
(* removed or changed records, dispatches no change notification and       *)
(* leaves the daily `changes` counter unchanged.                           *)
(***************************************************************************)
\* the list scraped by the cycle before the current one, once that cycle has
\* saved (a cycle that saves also completes)
PreviousScrape ==
    completed[IF pc = "idle" /\ outcome = "completed"
              THEN Len(completed) - 1 ELSE Len(completed)]

\* the current cycle has diffed the list its predecessor scraped and saved
SameScrapeAfterSave ==
    /\ cycle >= 2
    /\ (cycle - 1) \in Range(savedTs)
    /\ Diffed
    /\ current_items = PreviousScrape

FoundNothing == new_items = << >> /\ removed_items = << >> /\ changed_items = << >>

\* the counter as the cycle found it
CounterAtStart == read_status(startStatus).changes

\* the claim as stated, the counter compared over the whole cycle
C26_SameScrapeLeavesCounterUnchanged ==
    SameScrapeAfterSave =>
        /\ FoundNothing
        /\ ~Dispatched
        /\ (outcome # "raised" /\ "count" \in Range(stages)) =>
               statusFile.changes = CounterAtStart

\* C26 as amended: the second cycle finds nothing, dispatches nothing and adds
\* nothing to the counter; the counter differs from what the cycle found only
\* when the cycle's send_daily_status reported that value and reset it to 0
C26_SameScrapeAddsNothing ==
    SameScrapeAfterSave =>
        /\ FoundNothing
        /\ ~Dispatched
        /\ "notify" \notin Range(stages)
        /\ (outcome # "raised" /\ "count" \in Range(stages)) =>
               \/ statusFile.changes = CounterAtStart
               \/ /\ "status" \in Range(stages)
                  /\ statusFile.changes = 0
                  /\ lastReport.figure = CounterAtStart

\* the second cycle has re-scraped a non-empty list and counted, the counter
\* still at the 1 the first cycle had left
C26_Witness ==
    /\ SameScrapeAfterSave
    /\ current_items # << >>
    /\ "count" \in Range(stages)
    /\ outcome # "raised"
    /\ CounterAtStart >= 1
    /\ statusFile.changes = CounterAtStart

(***************************************************************************)
(* C27: when writing the snapshot fails inside save_current_data, the      *)
(* error is swallowed, monitor() goes on to the daily status step, and the *)
(* snapshot persisted before remains intact on disk, so that the next      *)
(* cycle still diffs against the last successfully saved records.          *)
(***************************************************************************)
SaveFailed == saveResult \in {"open_error", "write_error"}

C27_FailedSaveKeepsSnapshot ==
    SaveFailed =>
        /\ outcome # "raised"
        /\ pc \in {"status", "idle"}
        /\ dataFile = startData

(***************************************************************************)
(* C28: with a target configured, a cycle in which the target's record is  *)
(* present in both the stored and the scraped snapshot and differs in a    *)
(* non-ignored field completes with a rendered message that contains a Key *)
(* Change block listing the target's change, and a change notification is  *)
(* dispatched.                                                             *)
(***************************************************************************)
\* the ItemChanges of the cycle that are about the target
TargetChanges ==
    {i \in 1..Len(changed_items) :
        NameMatches(changed_items[i].new_item, target_item)}

C28_TargetChangeIsNotified ==
    (CycleOver /\ target_item # "" /\ TargetChanges # {} /\ startStatus.kind # "corrupt") =>
        /\ outcome = "completed"
        /\ \E b \in 1..Len(message) :
              /\ message[b].kind = "changed"
              /\ \E i \in TargetChanges :
                    changed_items[i].new_item \in Range(message[b].shown)
        /\ Dispatched

(***************************************************************************)
(* C29: send_daily_status records today's date as last_sent and resets     *)
(* `changes` to 0 whenever last_sent is absent or earlier than today,      *)
(* whether or not the status message was delivered (notifier disabled or   *)
(* delivery failing); on a date equal to or earlier than last_sent it      *)
(* sends nothing and leaves last_sent and `changes` unchanged.  Stated for *)
(* a status file that is absent or decodable.                              *)
(***************************************************************************)
C29_DailyStatusResetsWhateverTheDelivery ==
    (Returned("SiteMonitor.send_daily_status") /\ args.file.kind # "corrupt") =>
        LET r == result[1]
            found == read_status(args.file)
        IN  IF found.last_sent = 0 \/ found.last_sent < args.today
            THEN /\ ~r.raised
                 /\ r.file = StatusFile("ok", args.today, 0)
                 /\ r.alert = IF ~args.enabled THEN "disabled"
                              ELSE IF \A i \in 1..Len(args.replies) : args.replies[i] = "ok"
                                   THEN "sent" ELSE "failed"
            ELSE /\ ~r.raised
                 /\ r.alert = "none"
                 /\ r.file.kind = "ok"
                 /\ r.file.last_sent = found.last_sent
                 /\ r.file.changes = found.changes

\* a status due on day 2 whose delivery failed: the counter is reset and the
\* date recorded all the same
C29_Witness ==
    /\ Returned("SiteMonitor.send_daily_status")
    /\ args.file = StatusFile("ok", 1, 1)
    /\ args.today = 2
    /\ args.enabled
    /\ args.replies = << "request_error" >>
    /\ result[1].alert = "failed"
    /\ result[1].file = StatusFile("ok", 2, 0)

(***************************************************************************)
(* C30: field comparison covers only the fields present in both records,   *)
(* a field of the old record that the new one lacks yields no FieldChange; *)
(* so find_changes(B, A) returns the `new` keys of find_changes(A, B) as   *)
(* `removed`, its `removed` keys as `new`, and `changed` for the same set  *)
(* of keys, with the same field names and the old and new values           *)
(* exchanged.                                                              *)
(***************************************************************************)
\* find_changes with the two lists of the cycle exchanged
Reverse == find_changes(previous_items, current_items)

\* the ItemChange of a list of changes that is about the key
ChangeOf(changes, key) ==
    CHOOSE c \in Range(changes) : get_item_key(c.new_item) = key

C30_ReverseDiffMirrors ==
    Diffed =>
      LET reverse == Reverse
      IN
        /\ \A i \in 1..Len(changed_items) :
               DOMAIN changed_items[i].changes
                   \subseteq DOMAIN changed_items[i].old_item
                             \cap DOMAIN changed_items[i].new_item
        /\ KeysOf(reverse.removed) = KeysOf(new_items)
        /\ KeysOf(reverse.new) = KeysOf(removed_items)
        /\ Len(reverse.changed) = Len(changed_items)
        /\ {get_item_key(c.new_item) : c \in Range(reverse.changed)} = ChangedKeys
        /\ \A c \in Range(changed_items) :
               LET back == ChangeOf(reverse.changed, get_item_key(c.new_item))
               IN  /\ back.old_item = c.new_item
                   /\ back.new_item = c.old_item
                   /\ DOMAIN back.changes = DOMAIN c.changes
                   /\ \A f \in DOMAIN c.changes :
                          /\ back.changes[f].field_name = c.changes[f].field_name
                          /\ back.changes[f].old_value = c.changes[f].new_value
                          /\ back.changes[f].new_value = c.changes[f].old_value

\* one key new (removed, for the reverse), and one changed in rank whose
\* stored record has votes while the scraped one has none
C30_Witness ==
    /\ Diffed
    /\ new_items # << >>
    /\ Reverse.removed = new_items
    /\ Len(changed_items) = 1
    /\ "votes" \in DOMAIN changed_items[1].old_item
    /\ "votes" \notin DOMAIN changed_items[1].new_item
    /\ DOMAIN changed_items[1].changes = {"rank"}

====
